---- MODULE Spec2Model ----
(***************************************************************************)
(* Model of the profile lifecycle manager of UndetectedBrowser             *)
(* (src/src/core/profile_manager.py) together with the value types it      *)
(* consumes (src/src/utils/fingerprint_generator.py,                       *)
(* src/src/utils/proxy_manager.py, src/src/config_manager.py).             *)
(*                                                                         *)
(* Strings whose characters matter (profile names, directory names) are    *)
(* sequences of one-character strings; None is the empty sequence <<>> and *)
(* a present optional value v is <<v>>.                                    *)
(***************************************************************************)
EXTENDS Integers, Sequences, FiniteSets, TLC

\* ------------------------------------------------------------------------
\* Bounds
\* ------------------------------------------------------------------------

\* Longest profile name handed to profile_dir in the specification SpecDir.
MaxNameLen == 3

\* How many entries of FingerprintGenerator.CHROME_VERSIONS are drawn from.
NumChromeVersions == 2

\* How many entries of FingerprintGenerator.WEBGL_CONFIGS are drawn from.
NumWebglConfigs == 2

\* Largest value of the wall clock read by datetime.utcnow().
MaxClock == 1

\* Longest notes text a duplicate is still taken of (the provenance line is
\* prepended on every duplicate_profile, so notes grow without bound).
MaxNotesLen == 0

\* ------------------------------------------------------------------------
\* Characters and names
\* ------------------------------------------------------------------------

Whitespace == {" "}

Chars == {"a", " ", "_", ".", "/", "\\"}

RECURSIVE SeqsUpTo(_, _)
SeqsUpTo(S, n) ==
    IF n = 0 THEN {<<>>}
    ELSE LET shorter == SeqsUpTo(S, n - 1)
         IN  shorter \cup {Append(s, c) : s \in shorter, c \in S}

\* Every name profile_dir is applied to in SpecDir.
AllNames == SeqsUpTo(Chars, MaxNameLen)

\* The names the ProfileManager operations are called with.  "a a" and "a_a"
\* differ only in whitespace versus the join character; "." is the name that
\* pathlib resolves to the profiles root itself.
NameA    == <<"a">>
NameASpA == <<"a", " ", "a">>
NameAUsA == <<"a", "_", "a">>
NameDot  == <<".">>
NameNone == <<>>

Names == {NameA, NameASpA, NameAUsA}

\* ------------------------------------------------------------------------
\* str.strip / str.split / str.join / "in"
\* ------------------------------------------------------------------------

RECURSIVE lstrip(_)
lstrip(s) ==
    IF s = <<>> THEN <<>>
    ELSE IF Head(s) \in Whitespace THEN lstrip(Tail(s)) ELSE s

RECURSIVE rstrip(_)
rstrip(s) ==
    IF s = <<>> THEN <<>>
    ELSE IF s[Len(s)] \in Whitespace THEN rstrip(SubSeq(s, 1, Len(s) - 1)) ELSE s

strip(s) == rstrip(lstrip(s))

RECURSIVE split_from(_, _, _)
split_from(s, cur, acc) ==
    IF s = <<>>
    THEN IF cur = <<>> THEN acc ELSE Append(acc, cur)
    ELSE IF Head(s) \in Whitespace
         THEN split_from(Tail(s), <<>>, IF cur = <<>> THEN acc ELSE Append(acc, cur))
         ELSE split_from(Tail(s), Append(cur, Head(s)), acc)

\* name.split(): the maximal runs of non-whitespace characters.
split(s) == split_from(s, <<>>, <<>>)

RECURSIVE join(_, _)
join(sep, parts) ==
    IF parts = <<>> THEN <<>>
    ELSE IF Len(parts) = 1 THEN parts[1]
    ELSE parts[1] \o sep \o join(sep, Tail(parts))

\* sub in s
contains(s, sub) ==
    \E i \in 1..(Len(s) - Len(sub) + 1) : SubSeq(s, i, i + Len(sub) - 1) = sub

\* ------------------------------------------------------------------------
\* Paths below PROFILES_DIR
\* ------------------------------------------------------------------------

\* A path is the sequence of its components relative to PROFILES_DIR; the
\* profiles root itself is the empty sequence.
PROFILES_DIR == <<>>

\* pathlib's "/" with a right operand that holds no separator: a "."
\* component is dropped when the path is parsed, every other component is
\* appended.
path_join(base, part) ==
    IF part = <<".">> \/ part = <<>> THEN base ELSE Append(base, part)

\* "_".join(name.split())
sanitize(name) == join(<<"_">>, split(name))

\* ProfileManager.profile_dir: err is "" when a path is returned.
profile_dir(name) ==
    IF strip(name) = <<>>
    THEN [err |-> "ProfileValidationError", path |-> PROFILES_DIR]
    ELSE LET safe == sanitize(name)
         IN  IF contains(safe, <<".", ".">>) \/ contains(safe, <<"/">>)
                \/ contains(safe, <<"\\">>)
             THEN [err |-> "ProfileValidationError", path |-> PROFILES_DIR]
             ELSE [err |-> "", path |-> path_join(PROFILES_DIR, safe)]

\* ------------------------------------------------------------------------
\* Value types
\* ------------------------------------------------------------------------

\* FingerprintGenerator.CHROME_VERSIONS
CHROME_VERSIONS ==
    <<"120.0.6099.109", "119.0.6045.159", "118.0.5993.88",
      "117.0.5938.92", "116.0.5845.96">>

\* FingerprintGenerator.WEBGL_CONFIGS
WEBGL_CONFIGS ==
    << [vendor |-> "Google Inc. (NVIDIA)",
        renderer |-> "ANGLE (NVIDIA GeForce GTX 1660 Ti Direct3D11 vs_5_0 ps_5_0)"],
       [vendor |-> "Google Inc. (Intel)",
        renderer |-> "ANGLE (Intel(R) UHD Graphics 630 Direct3D11 vs_5_0 ps_5_0)"],
       [vendor |-> "Google Inc. (AMD)",
        renderer |-> "ANGLE (AMD Radeon RX 580 Direct3D11 vs_5_0 ps_5_0)"],
       [vendor |-> "Google Inc. (Apple)",
        renderer |-> "ANGLE (Apple, Apple M1, OpenGL 4.1)"] >>

\* os_strings.get(os_type, os_strings['windows'])
os_string(os_type) ==
    CASE os_type = "macos" -> "Macintosh; Intel Mac OS X 10_15_7"
      [] os_type = "linux" -> "X11; Linux x86_64"
      [] OTHER             -> "Windows NT 10.0; Win64; x64"

\* FingerprintGenerator.generate_user_agent, for the drawn chrome version.
generate_user_agent(os_type, chrome_version) ==
    <<"Mozilla/5.0 (", os_string(os_type),
      ") AppleWebKit/537.36 (KHTML, like Gecko) Chrome/", chrome_version,
      " Safari/537.36">>

\* platforms.get(os_type, platforms['windows'])
platform_config(os_type) ==
    CASE os_type = "macos" ->
           [platform |-> "MacIntel", vendor |-> "Google Inc.",
            renderer |-> "Google Inc. (Apple)"]
      [] os_type = "linux" ->
           [platform |-> "Linux x86_64", vendor |-> "Google Inc.",
            renderer |-> "Google Inc. (NVIDIA)"]
      [] OTHER ->
           [platform |-> "Win32", vendor |-> "Google Inc.",
            renderer |-> "Google Inc. (NVIDIA)"]

\* The fields of the dataclass BrowserFingerprint that the model keeps, in
\* the order of their declaration.
FIELDS ==
    <<"user_agent", "platform", "vendor", "renderer", "color_depth",
      "webgl_vendor", "webgl_renderer">>

\* BrowserFingerprint(**kwargs) with one argument for every field: the
\* instance, the values of its fields in the order of their declaration.
BrowserFingerprint(kwargs) == [i \in 1..Len(FIELDS) |-> kwargs[FIELDS[i]]]

\* A to_dict that writes each of the two WebGL fields under the other's key.
asdict_webgl_swapped(fingerprint) ==
    [user_agent     |-> fingerprint[1],
     platform       |-> fingerprint[2],
     vendor         |-> fingerprint[3],
     renderer       |-> fingerprint[4],
     color_depth    |-> fingerprint[5],
     webgl_vendor   |-> fingerprint[7],
     webgl_renderer |-> fingerprint[6]]

\* BrowserFingerprint.to_dict (dataclasses.asdict): the dictionary from
\* every field name to the field's value.
asdict(fingerprint) ==
    [user_agent     |-> fingerprint[1],
     platform       |-> fingerprint[2],
     vendor         |-> fingerprint[3],
     renderer       |-> fingerprint[4],
     color_depth    |-> fingerprint[5],
     webgl_vendor   |-> fingerprint[6],
     webgl_renderer |-> fingerprint[7]]

\* FingerprintGenerator.from_dict: BrowserFingerprint(**data), a TypeError
\* when a field has no key in data or a key of data names no field.
fingerprint_from_dict(data) ==
    IF DOMAIN data = {FIELDS[i] : i \in 1..Len(FIELDS)}
    THEN [err |-> "", value |-> BrowserFingerprint(data)]
    ELSE [err |-> "TypeError", value |-> <<>>]

\* The BrowserFingerprint built by FingerprintGenerator.generate when
\* random.choice returns CHROME_VERSIONS[v] and WEBGL_CONFIGS[w].  The other
\* randomly drawn fields (screen, viewport, hardware_concurrency,
\* device_memory, languages, timezone) are independent draws none of the
\* operations below reads; they are left out of the record.
fingerprint_of(os_type, custom_user_agent, v, w) ==
    BrowserFingerprint(
        [user_agent     |-> IF custom_user_agent # <<>>
                            THEN custom_user_agent
                            ELSE generate_user_agent(os_type, CHROME_VERSIONS[v]),
         platform       |-> platform_config(os_type).platform,
         vendor         |-> platform_config(os_type).vendor,
         renderer       |-> platform_config(os_type).renderer,
         color_depth    |-> 24,
         webgl_vendor   |-> WEBGL_CONFIGS[w].vendor,
         webgl_renderer |-> WEBGL_CONFIGS[w].renderer])

\* FingerprintGenerator.generate: every fingerprint the random choices can
\* produce.
generate(os_type, custom_user_agent) ==
    {fingerprint_of(os_type, custom_user_agent, v, w) :
        v \in 1..NumChromeVersions, w \in 1..NumWebglConfigs}

\* ProxyConfig.to_dict
proxy_to_dict(proxy) ==
    [server |-> proxy.server, username |-> proxy.username, password |-> proxy.password]

\* ------------------------------------------------------------------------
\* State
\* ------------------------------------------------------------------------

VARIABLES
    metadata_file,   \* profiles.json: [state |-> "ok" | "absent" | "corrupt", data |-> name -> record]
    dirs,            \* existing directories at or below PROFILES_DIR -> their auxiliary files
    browser_engine,  \* config_manager's "browser_engine" setting
    clock,           \* datetime.utcnow()
    last,            \* the operation that ran last, its arguments and the error it raised
    snapshot,        \* store and directories before a rename that the next rename reverses
    dir_name,        \* SpecDir: the name profile_dir is applied to
    dir_result,      \* SpecDir: what profile_dir returned
    used_fingerprint,   \* the BrowserFingerprint the create that just succeeded wrote
    _active_processes,  \* BrowserLauncher._active_processes: profile name -> BrowserProcess
    processes,          \* the operating system's process table, indexed by pid
    threads,            \* the launch threads, in the order they were started
    returned,           \* what the last BrowserLauncher call returned, if anything
    calls,              \* caller thread -> where it is inside a BrowserLauncher call
    profile_tree,       \* CacheCleaner: the content of the profile directory it is given
    cleaner,            \* CacheCleaner: the call that ran last, its flags and its result
    _monitored_profiles,   \* ProcessMonitorService._monitored_profiles
    watchers,              \* the watch threads, in the order they were started
    selected_profile,      \* MainWindow.selected_profile
    session,               \* one run of the engine: the tabs, last_saved, last_session.json
    uptime                 \* a BrowserProcess's age and what get_uptime returned for it

\* The state of BrowserLauncher and of the operating system under it.
launcher_vars == <<_active_processes, processes, threads, returned, calls>>

\* The state of the utilities and of the GUI services.
monitor_vars == <<_monitored_profiles, watchers, selected_profile>>
run_vars == <<session, uptime>>
service_vars == <<profile_tree, cleaner, monitor_vars, run_vars>>

vars == <<metadata_file, dirs, browser_engine, clock, last, snapshot, dir_name, dir_result,
          used_fingerprint, launcher_vars, service_vars>>

pm_vars == <<metadata_file, dirs, browser_engine, clock, last, snapshot>>

\* A mapping with no key.
EmptyMap == [n \in {} |-> 0]

\* A directory holding none of notes.txt, fingerprint.json, proxy.json.
EmptyDir == [notes |-> <<>>, fingerprint |-> <<>>, proxy |-> <<>>]

\* The filesystem as one value: the directories and the metadata document.
FileSystem(ds, mf) == [dirs |-> ds, meta |-> mf]

\* Path.exists()
exists(fs, p) == p \in DOMAIN fs.dirs

\* Path.mkdir(parents=True): the directory and, when missing, the profiles
\* root above it.
mkdir(fs, p) ==
    [fs EXCEPT !.dirs =
        [q \in DOMAIN fs.dirs \cup {p, PROFILES_DIR} |->
            IF q \in DOMAIN fs.dirs THEN fs.dirs[q] ELSE EmptyDir]]

\* shutil.rmtree(p, ignore_errors=True): the tree below p goes; below the
\* profiles root that is every profile directory and profiles.json.
rmtree(fs, p) ==
    IF p = PROFILES_DIR
    THEN [dirs |-> EmptyMap, meta |-> [state |-> "absent", data |-> EmptyMap]]
    ELSE [fs EXCEPT !.dirs = [q \in DOMAIN fs.dirs \ {p} |-> fs.dirs[q]]]

\* (p / file).write_text(content)
write_text(fs, p, file, content) ==
    [fs EXCEPT !.dirs[p][file] = <<content>>]

\* ProfileMetadata.__init__: an engine argument of "chromedriver" is replaced
\* by the configured global engine.
ProfileMetadata(name, created, path, fingerprint, proxy, notes, engine, last_launched) ==
    [name          |-> name,
     created       |-> created,
     path          |-> path,
     fingerprint   |-> fingerprint,
     proxy         |-> proxy,
     notes         |-> notes,
     engine        |-> IF engine # "chromedriver" THEN engine ELSE browser_engine,
     last_launched |-> last_launched]

\* ProfileMetadata.from_dict: goes through the constructor.
from_dict(data) ==
    ProfileMetadata(data.name, data.created, data.path, data.fingerprint,
                    data.proxy, data.notes, data.engine, data.last_launched)

\* ProfileMetadata.to_dict
to_dict(meta) ==
    [name |-> meta.name, created |-> meta.created, path |-> meta.path,
     fingerprint |-> meta.fingerprint, proxy |-> meta.proxy, notes |-> meta.notes,
     engine |-> meta.engine, last_launched |-> meta.last_launched]

\* A loader that treats an undecodable document like a missing one.
_load_metadata_lenient(fs, fault) ==
    IF fault = "load"
    THEN [err |-> "ProfileIOError", metadata |-> EmptyMap]
    ELSE [err |-> "",
          metadata |-> [n \in DOMAIN fs.meta.data |-> from_dict(fs.meta.data[n])]]

\* ProfileManager._load_metadata: a missing document loads as the empty
\* mapping, an undecodable one raises ProfileIOError, and so does an OSError
\* of open() (fault = "load") through _handle_io_errors.
_load_metadata(fs, fault) ==
    IF fault = "load" \/ fs.meta.state = "corrupt"
    THEN [err |-> "ProfileIOError", metadata |-> EmptyMap]
    ELSE [err |-> "",
          metadata |-> [n \in DOMAIN fs.meta.data |-> from_dict(fs.meta.data[n])]]

\* ProfileManager._save_metadata: open(..., "w") fails and leaves the
\* document as it was (fault = "save_open", or no profiles root to create
\* the file in), or the write fails after the truncation and leaves an
\* undecodable document (fault = "save_write"); _handle_io_errors turns both
\* into ProfileIOError.
_save_metadata(fs, metadata, fault) ==
    IF fault = "save_open" \/ ~exists(fs, PROFILES_DIR)
    THEN [err |-> "ProfileIOError", fs |-> fs]
    ELSE IF fault = "save_write"
    THEN [err |-> "ProfileIOError",
          fs  |-> [fs EXCEPT !.meta = [state |-> "corrupt", data |-> EmptyMap]]]
    ELSE [err |-> "",
          fs  |-> [fs EXCEPT !.meta =
                    [state |-> "ok",
                     data  |-> [n \in DOMAIN metadata |-> to_dict(metadata[n])]]]]

\* What an operation did: the error it raised ("" when it returned True) and
\* the filesystem it left.
Outcome(err, fs) == [err |-> err, fs |-> fs]

\* ------------------------------------------------------------------------
\* ProfileManager operations
\* ------------------------------------------------------------------------

\* The except clauses shared by the public operations: PermissionError and
\* OSError become ProfileIOError, every other exception (the typed Profile*
\* errors raised inside the try block included) becomes ProfileError.
translate(exc) == IF exc = "OSError" THEN "ProfileIOError" ELSE "ProfileError"

\* "if pdir.exists(): shutil.rmtree(pdir, ignore_errors=True)" of the except
\* clauses of create_profile and duplicate_profile.
cleanup(fs, pdir) == IF exists(fs, pdir) THEN rmtree(fs, pdir) ELSE fs

\* The text create_profile writes to notes.txt (without its timestamp).
notes_content(notes) ==
    <<"Profile created: ">> \o
    (IF notes # <<>> THEN <<"\nNotes:\n">> \o notes \o <<"\n">> ELSE <<>>)

\* metadata[name] = meta
put(metadata, name, meta) ==
    [n \in DOMAIN metadata \cup {name} |-> IF n = name THEN meta ELSE metadata[n]]

\* del metadata[name]
remove(metadata, name) == [n \in DOMAIN metadata \ {name} |-> metadata[n]]

\* ProfileManager.create_profile (and create_profile_with_fingerprint, whose
\* body differs only in taking the fingerprint from the caller when one is
\* given); fingerprint is the BrowserFingerprint in use, now is utcnow().
create_profile(fs, name, fingerprint, proxy, notes, engine, fault, now) ==
    LET pd == profile_dir(name)
        pdir == pd.path
        raise(exc, fsx) == Outcome(translate(exc), cleanup(fsx, pdir))
        fs1 == mkdir(fs, pdir)
        fs2 == write_text(fs1, pdir, "notes", notes_content(notes))
        fs3 == write_text(fs2, pdir, "fingerprint", asdict(fingerprint))
        fs4 == IF proxy # <<>>
               THEN write_text(fs3, pdir, "proxy", proxy_to_dict(proxy[1]))
               ELSE fs3
        loaded == _load_metadata(fs4, fault)
        meta == ProfileMetadata(name, now, pdir, <<asdict(fingerprint)>>,
                                IF proxy # <<>> THEN <<proxy_to_dict(proxy[1])>> ELSE <<>>,
                                notes, engine, <<>>)
        saved == _save_metadata(fs4, put(loaded.metadata, name, meta), fault)
    IN  IF pd.err # "" THEN Outcome(translate(pd.err), fs)
        ELSE IF exists(fs, pdir) THEN raise("ProfileAlreadyExistsError", fs)
        ELSE IF fault = "mkdir" THEN raise("OSError", fs)
        ELSE IF fault = "write_notes" THEN raise("OSError", fs1)
        ELSE IF fault = "write_fingerprint" THEN raise("OSError", fs2)
        ELSE IF fault = "write_proxy" /\ proxy # <<>> THEN raise("OSError", fs3)
        ELSE IF loaded.err # "" THEN raise(loaded.err, fs4)
        ELSE IF saved.err # "" THEN raise(saved.err, saved.fs)
        ELSE Outcome("", saved.fs)

\* ProfileManager.create_profile_with_fingerprint: the body of create_profile
\* with the caller's fingerprint in the place of the generated one when the
\* caller gives one; generated is what FingerprintGenerator.generate would
\* return.
create_profile_with_fingerprint(fs, name, generated, fingerprint, proxy, notes, engine, fault, now) ==
    create_profile(fs, name, IF fingerprint # <<>> THEN fingerprint[1] ELSE generated,
                   proxy, notes, engine, fault, now)

\* ProfileManager.list_profiles: the loaded mapping, or the error of
\* _load_metadata as it is.
list_profiles(fs) ==
    LET loaded == _load_metadata(fs, "none")
    IN  [err |-> loaded.err, value |-> loaded.metadata]

\* ProfileManager.get_profile: metadata.get(name), or the error of
\* _load_metadata as it is.
get_profile(fs, name) ==
    LET loaded == _load_metadata(fs, "none")
    IN  [err   |-> loaded.err,
         value |-> IF loaded.err = "" /\ name \in DOMAIN loaded.metadata
                   THEN <<loaded.metadata[name]>> ELSE <<>>]

\* ProfileManager.update_profile; every optional argument is <<>> for None.
update_profile(fs, name, fingerprint, proxy, notes, engine, fault) ==
    LET loaded == _load_metadata(fs, fault)
        pd == profile_dir(name)
        pdir == pd.path
        profile == loaded.metadata[name]
        \* a write_text into a directory that does not exist raises
        \* FileNotFoundError, an OSError
        fp_fails == fingerprint # <<>> /\ (fault = "write_fingerprint" \/ ~exists(fs, pdir))
        fs1 == IF fingerprint # <<>>
               THEN write_text(fs, pdir, "fingerprint", asdict(fingerprint[1])) ELSE fs
        px_fails == proxy # <<>> /\ (fault = "write_proxy" \/ ~exists(fs1, pdir))
        fs2 == IF proxy # <<>>
               THEN write_text(fs1, pdir, "proxy", proxy_to_dict(proxy[1])) ELSE fs1
        nt_fails == notes # <<>> /\ (fault = "write_notes" \/ ~exists(fs2, pdir))
        fs3 == IF notes # <<>>
               THEN write_text(fs2, pdir, "notes", notes[1]) ELSE fs2
        updated == [profile EXCEPT
                      !.fingerprint = IF fingerprint # <<>>
                                      THEN <<asdict(fingerprint[1])>> ELSE @,
                      !.proxy = IF proxy # <<>> THEN <<proxy_to_dict(proxy[1])>> ELSE @,
                      !.notes = IF notes # <<>> THEN notes[1] ELSE @,
                      !.engine = IF engine # <<>> THEN engine[1] ELSE @]
        saved == _save_metadata(fs3, put(loaded.metadata, name, updated), fault)
    IN  IF loaded.err # "" THEN Outcome(translate(loaded.err), fs)
        ELSE IF name \notin DOMAIN loaded.metadata
             THEN Outcome(translate("ProfileNotFoundError"), fs)
        ELSE IF pd.err # "" THEN Outcome(translate(pd.err), fs)
        ELSE IF fp_fails THEN Outcome(translate("OSError"), fs)
        ELSE IF px_fails THEN Outcome(translate("OSError"), fs1)
        ELSE IF nt_fails THEN Outcome(translate("OSError"), fs2)
        ELSE IF saved.err # "" THEN Outcome(translate(saved.err), saved.fs)
        ELSE Outcome("", saved.fs)

\* ProfileManager.delete_profile
delete_profile(fs, name, fault) ==
    LET pd == profile_dir(name)
        pdir == pd.path
        loaded == _load_metadata(fs, fault)
        saved == IF name \in DOMAIN loaded.metadata
                 THEN _save_metadata(fs, remove(loaded.metadata, name), fault)
                 ELSE [err |-> "", fs |-> fs]
    IN  IF pd.err # "" THEN Outcome(translate(pd.err), fs)
        ELSE IF ~exists(fs, pdir) THEN Outcome(translate("ProfileNotFoundError"), fs)
        ELSE IF loaded.err # "" THEN Outcome(translate(loaded.err), fs)
        ELSE IF saved.err # "" THEN Outcome(translate(saved.err), saved.fs)
        ELSE Outcome("", rmtree(saved.fs, pdir))

\* old_dir.rename(new_dir), new_dir not existing
rename_dir(fs, old_dir, new_dir) ==
    [fs EXCEPT !.dirs =
        [q \in (DOMAIN fs.dirs \ {old_dir}) \cup {new_dir} |->
            IF q = new_dir THEN fs.dirs[old_dir] ELSE fs.dirs[q]]]

\* ProfileManager.rename_profile
rename_profile(fs, old_name, new_name, fault) ==
    LET od == profile_dir(old_name)
        nd == profile_dir(new_name)
        old_dir == od.path
        new_dir == nd.path
        fs1 == rename_dir(fs, old_dir, new_dir)
        loaded == _load_metadata(fs1, fault)
        profile == [loaded.metadata[old_name] EXCEPT !.name = new_name, !.path = new_dir]
        saved == IF old_name \in DOMAIN loaded.metadata
                 THEN _save_metadata(
                        fs1, put(remove(loaded.metadata, old_name), new_name, profile), fault)
                 ELSE [err |-> "", fs |-> fs1]
    IN  IF od.err # "" THEN Outcome(translate(od.err), fs)
        ELSE IF nd.err # "" THEN Outcome(translate(nd.err), fs)
        ELSE IF ~exists(fs, old_dir) THEN Outcome(translate("ProfileNotFoundError"), fs)
        ELSE IF exists(fs, new_dir) THEN Outcome(translate("ProfileAlreadyExistsError"), fs)
        \* the OS refuses to move the profiles root into itself
        ELSE IF fault = "rename" \/ old_dir = PROFILES_DIR
             THEN Outcome(translate("OSError"), fs)
        ELSE IF loaded.err # "" THEN Outcome(translate(loaded.err), fs1)
        ELSE IF saved.err # "" THEN Outcome(translate(saved.err), saved.fs)
        ELSE Outcome("", saved.fs)

\* shutil.copytree(source_dir, new_dir): the auxiliary files of the source
\* are copied (the copy of the rest of the tree is not part of the state).
copytree(fs, source_dir, new_dir) ==
    [fs EXCEPT !.dirs =
        [q \in DOMAIN fs.dirs \cup {new_dir} |->
            IF q = new_dir THEN fs.dirs[source_dir] ELSE fs.dirs[q]]]

\* ProfileManager.duplicate_profile; new_fingerprint is what
\* FingerprintGenerator.generate('windows') returned.
duplicate_profile(fs, source_name, new_name, new_fingerprint, fault, now) ==
    LET sd == profile_dir(source_name)
        nd == profile_dir(new_name)
        source_dir == sd.path
        new_dir == nd.path
        raise(exc, fsx) == Outcome(translate(exc), cleanup(fsx, new_dir))
        fs1 == copytree(fs, source_dir, new_dir)
        loaded == _load_metadata(fs1, fault)
        source_profile == loaded.metadata[source_name]
        fs2 == write_text(fs1, new_dir, "fingerprint", asdict(new_fingerprint))
        meta == ProfileMetadata(
                    new_name, now, new_dir, <<asdict(new_fingerprint)>>, source_profile.proxy,
                    <<"Duplicated from: ">> \o source_name \o <<"\n">> \o source_profile.notes,
                    "chromedriver", <<>>)
        saved == _save_metadata(fs2, put(loaded.metadata, new_name, meta), fault)
    IN  IF sd.err # "" THEN Outcome(translate(sd.err), fs)
        ELSE IF nd.err # "" THEN Outcome(translate(nd.err), fs)
        ELSE IF ~exists(fs, source_dir) THEN raise("ProfileNotFoundError", fs)
        ELSE IF exists(fs, new_dir) THEN raise("ProfileAlreadyExistsError", fs)
        ELSE IF fault = "copytree" THEN raise("OSError", fs)
        ELSE IF loaded.err # "" THEN raise(loaded.err, fs1)
        ELSE IF source_name \notin DOMAIN loaded.metadata THEN Outcome("", fs1)
        ELSE IF fault = "write_fingerprint" THEN raise("OSError", fs1)
        ELSE IF saved.err # "" THEN raise(saved.err, saved.fs)
        ELSE Outcome("", saved.fs)

\* ------------------------------------------------------------------------
\* Inputs
\* ------------------------------------------------------------------------

\* The step of an operation at which the filesystem raises an OSError.
Faults ==
    {"none", "mkdir", "write_notes", "write_fingerprint", "write_proxy",
     "load", "save_open", "save_write", "rename", "copytree"}

\* The draw of random.choice that Spec fixes: the first catalog entry.
FirstDraw == 1

\* Values of the "browser_engine" setting and of engine arguments.
Engines == {"chromedriver", "other"}

Proxy1 == [server |-> "127.0.0.1:8080", username |-> <<>>, password |-> <<>>]

\* proxy arguments: None or a ProxyConfig
Proxies == {<<>>, <<Proxy1>>}

\* notes arguments of create_profile
NotesTexts == {<<>>, <<"n">>}

\* ------------------------------------------------------------------------
\* Actions
\* ------------------------------------------------------------------------

NoOperation == [op |-> "none", name |-> <<>>, new |-> <<>>, err |-> ""]

NoSnapshot ==
    [phase |-> 0, old |-> <<>>, new |-> <<>>,
     fs |-> FileSystem(EmptyMap, [state |-> "absent", data |-> EmptyMap])]

\* The snapshot kept for the rename round trip: a successful rename records
\* the filesystem it started from (phase 1); when the operation that follows
\* is the successful reverse rename, the record is kept (phase 2); any other
\* operation drops it.
next_snapshot(op, a, b, err) ==
    IF op = "rename_profile" /\ err = ""
    THEN IF snapshot.phase = 1 /\ a = snapshot.new /\ b = snapshot.old
         THEN [snapshot EXCEPT !.phase = 2]
         ELSE [phase |-> 1, old |-> a, new |-> b,
               fs |-> FileSystem(dirs, metadata_file)]
    ELSE NoSnapshot

\* An operation ran to its end: the filesystem is what it left, and the
\* operation, its arguments and its error are recorded.
Completed(out, op, a, b) ==
    /\ dirs' = out.fs.dirs
    /\ metadata_file' = out.fs.meta
    /\ last' = [op |-> op, name |-> a, new |-> b, err |-> out.err]
    /\ snapshot' = next_snapshot(op, a, b, out.err)
    /\ UNCHANGED <<browser_engine, clock, dir_name, dir_result, launcher_vars, service_vars>>

\* v and w are what random.choice returned for the chrome version and the
\* WebGL configuration.
CreateProfile(name, os_type, custom_user_agent, proxy, notes, engine, fault, v, w) ==
    LET fingerprint == fingerprint_of(os_type, custom_user_agent, v, w)
        out == create_profile(FileSystem(dirs, metadata_file), name, fingerprint,
                              proxy, notes, engine, fault, clock)
    IN  /\ Completed(out, "create_profile", name, <<>>)
        /\ used_fingerprint' = IF out.err = "" THEN <<fingerprint>> ELSE <<>>

\* fingerprint is the BrowserFingerprint the caller passes, or <<>>.
CreateProfileWithFingerprint(name, os_type, custom_user_agent, fingerprint, proxy, notes, engine, fault, v, w) ==
    LET generated == fingerprint_of(os_type, custom_user_agent, v, w)
        out == create_profile_with_fingerprint(
                   FileSystem(dirs, metadata_file), name, generated, fingerprint,
                   proxy, notes, engine, fault, clock)
    IN  /\ Completed(out, "create_profile_with_fingerprint", name, <<>>)
        /\ used_fingerprint' =
              IF out.err # "" THEN <<>>
              ELSE IF fingerprint # <<>> THEN fingerprint ELSE <<generated>>

UpdateProfile(name, fingerprint, proxy, notes, engine, fault) ==
    /\ Completed(update_profile(FileSystem(dirs, metadata_file), name, fingerprint,
                                proxy, notes, engine, fault),
                 "update_profile", name, <<>>)
    /\ used_fingerprint' = <<>>

DeleteProfile(name, fault) ==
    /\ Completed(delete_profile(FileSystem(dirs, metadata_file), name, fault),
                 "delete_profile", name, <<>>)
    /\ used_fingerprint' = <<>>

RenameProfile(old_name, new_name, fault) ==
    /\ Completed(rename_profile(FileSystem(dirs, metadata_file), old_name, new_name, fault),
                 "rename_profile", old_name, new_name)
    /\ used_fingerprint' = <<>>

ListProfiles ==
    /\ Completed([err |-> list_profiles(FileSystem(dirs, metadata_file)).err,
                  fs  |-> FileSystem(dirs, metadata_file)],
                 "list_profiles", <<>>, <<>>)
    /\ used_fingerprint' = <<>>

GetProfile(name) ==
    /\ Completed([err |-> get_profile(FileSystem(dirs, metadata_file), name).err,
                  fs  |-> FileSystem(dirs, metadata_file)],
                 "get_profile", name, <<>>)
    /\ used_fingerprint' = <<>>

\* The notes of the source, when the document holds a record for it.
source_notes(source_name) ==
    IF metadata_file.state = "ok" /\ source_name \in DOMAIN metadata_file.data
    THEN metadata_file.data[source_name].notes
    ELSE <<>>

DuplicateProfile(source_name, new_name, fault, v, w) ==
    /\ Len(source_notes(source_name)) <= MaxNotesLen
    /\ Completed(duplicate_profile(FileSystem(dirs, metadata_file), source_name, new_name,
                                   fingerprint_of("windows", <<>>, v, w), fault, clock),
                 "duplicate_profile", source_name, new_name)
    /\ used_fingerprint' = <<>>

\* Time passes between two operations.
Tick ==
    /\ clock < MaxClock
    /\ clock' = clock + 1
    /\ UNCHANGED <<metadata_file, dirs, browser_engine, last, snapshot, dir_name, dir_result,
                   used_fingerprint, launcher_vars, service_vars>>

\* profile_dir applied to dir_name.
ProfileDir ==
    /\ dir_result.err = "unset"
    /\ dir_result' = profile_dir(dir_name)
    /\ UNCHANGED <<metadata_file, dirs, browser_engine, clock, last, snapshot, dir_name,
                   used_fingerprint, launcher_vars, service_vars>>

\* ------------------------------------------------------------------------
\* Specifications
\* ------------------------------------------------------------------------

\* After ProfileManager(): config.py has created the profiles root and
\* _ensure_metadata has written the empty mapping.
InitManager ==
    /\ metadata_file = [state |-> "ok", data |-> EmptyMap]
    /\ dirs = [p \in {PROFILES_DIR} |-> EmptyDir]
    /\ clock = 0
    /\ last = NoOperation
    /\ snapshot = NoSnapshot
    /\ used_fingerprint = <<>>

\* No call of CacheCleaner yet.
NoCleaning ==
    [op |-> "none", keep_cookies |-> FALSE, keep_history |-> FALSE, value |-> 0,
     paths |-> {}]

\* The utilities and the GUI services before they are used.
\* ProcessMonitorService.__init__ and MainWindow.__init__.
InitMonitor ==
    /\ _monitored_profiles = {}
    /\ watchers = <<>>
    /\ selected_profile = <<>>

\* No engine runs, and no uptime was asked for.
\* pc: "idle", "loop" or "quit"; tabs: the URLs of the open pages; last_saved: None or
\* the list; session_file: absent, or its urls and whether it was cut short;
\* wrote, seen, written: what the last pass did to the file ("no", "full",
\* "torn"), the list it saw, and what this run last put into the file.
NoSession ==
    [pc |-> "idle", tabs |-> <<>>, last_saved |-> <<>>, session_file |-> <<>>,
     wrote |-> "no", seen |-> <<>>, written |-> <<>>]

\* elapsed: now - started_at in seconds; text: the hours and minutes returned.
NoUptime == [elapsed |-> 0, text |-> <<>>]

InitRun ==
    /\ session = NoSession
    /\ uptime = NoUptime

InitServices ==
    /\ profile_tree = <<>>
    /\ cleaner = NoCleaning
    /\ InitMonitor
    /\ InitRun

\* The threads that call BrowserLauncher besides the launch threads: the UI
\* thread, and a watcher thread of ProcessMonitorService.
Callers == {"ui", "watcher"}

\* A caller that is not inside a call. Inside get_active_processes, view
\* keeps the entries <<name, pid>> of the registry when the iterator was
\* created, and began those of them whose process was not alive then.
NotCalling ==
    [pc |-> "idle", name |-> <<>>, view |-> {}, seen |-> {}, dead |-> {}, pid |-> 0,
     began |-> {}]

\* BrowserLauncher before any launch: an empty registry, no browser process,
\* no launch thread, nobody inside a call.
InitLauncher ==
    /\ _active_processes = EmptyMap
    /\ processes = <<>>
    /\ threads = <<>>
    /\ returned = <<>>
    /\ calls = [c \in Callers |-> NotCalling]

Init ==
    /\ InitManager
    /\ InitLauncher
    /\ InitServices
    /\ browser_engine = "chromedriver"
    /\ dir_name = <<>>
    /\ dir_result = [err |-> "unset", path |-> PROFILES_DIR]

\* Faults that can strike each operation.
CreateFaults == {"none", "mkdir", "write_notes", "write_fingerprint", "write_proxy",
                 "load", "save_open", "save_write"}
UpdateFaults == {"none", "write_notes", "write_fingerprint", "write_proxy",
                 "load", "save_open", "save_write"}
DeleteFaults == {"none", "load", "save_open", "save_write"}
RenameFaults == {"none", "rename", "load", "save_open", "save_write"}
DuplicateFaults == {"none", "copytree", "write_fingerprint", "load", "save_open", "save_write"}

\* The operations on every name of Names, with default arguments, one
\* outcome of the generator's draws, and every fault.
Next ==
    \/ \E name \in Names, fault \in CreateFaults :
          CreateProfile(name, "windows", <<>>, <<>>, <<>>, "chromedriver", fault,
                        FirstDraw, FirstDraw)
    \/ \E name \in Names, fault \in UpdateFaults :
          UpdateProfile(name, <<>>, <<>>, <<>>, <<"chromedriver">>, fault)
    \/ \E name \in Names, fault \in DeleteFaults : DeleteProfile(name, fault)
    \/ \E old_name \in Names, new_name \in Names, fault \in RenameFaults :
          RenameProfile(old_name, new_name, fault)
    \/ \E source_name \in Names, new_name \in Names, fault \in DuplicateFaults :
          DuplicateProfile(source_name, new_name, fault, FirstDraw, FirstDraw)

Spec == Init /\ [][Next]_vars

\* The names SpecEngine and SpecFingerprint call the operations with: two
\* names with distinct directories.
DataNames == {NameA, NameAUsA}

InitEngine ==
    /\ InitManager
    /\ InitLauncher
    /\ InitServices
    /\ browser_engine \in Engines
    /\ dir_name = <<>>
    /\ dir_result = [err |-> "unset", path |-> PROFILES_DIR]

\* The operations without faults, under every "browser_engine" setting and
\* with every engine argument, the clock advancing.
NextEngine ==
    \/ \E name \in DataNames, engine \in Engines :
          CreateProfile(name, "windows", <<>>, <<>>, <<>>, engine, "none",
                        FirstDraw, FirstDraw)
    \/ \E name \in DataNames, engine \in {<<>>} \cup {<<e>> : e \in Engines} :
          UpdateProfile(name, <<>>, <<>>, <<>>, engine, "none")
    \/ \E name \in DataNames : DeleteProfile(name, "none")
    \/ \E old_name \in DataNames, new_name \in DataNames :
          RenameProfile(old_name, new_name, "none")
    \/ \E source_name \in DataNames, new_name \in DataNames :
          DuplicateProfile(source_name, new_name, "none", FirstDraw, FirstDraw)
    \/ Tick

SpecEngine == InitEngine /\ [][NextEngine]_vars

\* The operations without faults, with every outcome of the generator's
\* draws and both operating systems.
NextFingerprint ==
    \/ \E name \in DataNames, os_type \in {"windows", "linux"},
          v \in 1..NumChromeVersions, w \in 1..NumWebglConfigs :
          CreateProfile(name, os_type, <<>>, <<>>, <<>>, "chromedriver", "none", v, w)
    \/ \E name \in DataNames :
          UpdateProfile(name, <<>>, <<>>, <<>>, <<"chromedriver">>, "none")
    \/ \E name \in DataNames : DeleteProfile(name, "none")
    \/ \E old_name \in DataNames, new_name \in DataNames :
          RenameProfile(old_name, new_name, "none")
    \/ \E source_name \in DataNames, new_name \in DataNames,
          v \in 1..NumChromeVersions, w \in 1..NumWebglConfigs :
          DuplicateProfile(source_name, new_name, "none", v, w)

SpecFingerprint == Init /\ [][NextFingerprint]_vars

\* The names SpecRoot calls the operations with: an ordinary name, the name
\* whose directory is the profiles root, and the empty name.
RootNames == {NameA, NameDot, NameNone}

\* The operations without faults on RootNames.
NextRoot ==
    \/ \E name \in RootNames :
          CreateProfile(name, "windows", <<>>, <<>>, <<>>, "chromedriver", "none",
                        FirstDraw, FirstDraw)
    \/ \E name \in RootNames :
          UpdateProfile(name, <<>>, <<>>, <<>>, <<"chromedriver">>, "none")
    \/ \E name \in RootNames : DeleteProfile(name, "none")
    \/ \E old_name \in RootNames, new_name \in RootNames :
          RenameProfile(old_name, new_name, "none")
    \/ \E source_name \in RootNames, new_name \in RootNames :
          DuplicateProfile(source_name, new_name, "none", FirstDraw, FirstDraw)

SpecRoot == Init /\ [][NextRoot]_vars

InitDir ==
    /\ InitManager
    /\ InitLauncher
    /\ InitServices
    /\ browser_engine = "chromedriver"
    /\ dir_name \in AllNames
    /\ dir_result = [err |-> "unset", path |-> PROFILES_DIR]

NextDir == ProfileDir

SpecDir == InitDir /\ [][NextDir]_vars

\* ------------------------------------------------------------------------
\* Vocabulary of the properties
\* ------------------------------------------------------------------------

\* The filesystem before and after a step.
Before == FileSystem(dirs, metadata_file)
After  == FileSystem(dirs', metadata_file')

\* The step is a ProfileManager operation (Tick is the only step that moves
\* the clock).
OperationStep == clock' = clock

\* The store holds a record under name.
has_record(fs, name) == fs.meta.state = "ok" /\ name \in DOMAIN fs.meta.data

\* The directory of a name that passes profile_dir.
dir_of(name) == profile_dir(name).path
valid(name) == profile_dir(name).err = ""

\* ------------------------------------------------------------------------
\* C1
\* ------------------------------------------------------------------------

\* C1: create_profile(name) called while the directory of name exists raises
\* ProfileAlreadyExistsError and leaves the metadata document and every
\* directory as they were.
C1_CreateExistingRejected ==
    [][ ( /\ OperationStep
          /\ last'.op = "create_profile"
          /\ valid(last'.name)
          /\ exists(Before, dir_of(last'.name)) )
        => ( /\ last'.err = "ProfileAlreadyExistsError"
             /\ After = Before ) ]_vars

\* ------------------------------------------------------------------------
\* C2
\* ------------------------------------------------------------------------

\* C2: delete_profile(name) called while the directory of name is absent
\* raises ProfileNotFoundError and leaves the metadata document and every
\* directory as they were.
C2_DeleteAbsentRejected ==
    [][ ( /\ OperationStep
          /\ last'.op = "delete_profile"
          /\ valid(last'.name)
          /\ ~exists(Before, dir_of(last'.name)) )
        => ( /\ last'.err = "ProfileNotFoundError"
             /\ After = Before ) ]_vars

\* ------------------------------------------------------------------------
\* C3
\* ------------------------------------------------------------------------

\* C3: after every completed operation, every record's directory exists and
\* every profile directory is the directory of some record.
C3_DirectoryIffRecord ==
    metadata_file.state = "ok" =>
        /\ \A n \in DOMAIN metadata_file.data :
              exists(Before, metadata_file.data[n].path)
        /\ \A p \in DOMAIN dirs \ {PROFILES_DIR} :
              \E n \in DOMAIN metadata_file.data : metadata_file.data[n].path = p

\* ------------------------------------------------------------------------
\* C4
\* ------------------------------------------------------------------------

\* C4: when create_profile(name) starts without a directory for name (so it
\* goes on to create one) and raises, then afterwards the directory does not
\* exist and the store holds no record under name.
C4_FailedCreateLeavesNothing ==
    [][ ( /\ OperationStep
          /\ last'.op = "create_profile"
          /\ valid(last'.name)
          /\ ~exists(Before, dir_of(last'.name))
          /\ last'.err # "" )
        => ( /\ ~exists(After, dir_of(last'.name))
             /\ ~has_record(After, last'.name) ) ]_vars

\* ------------------------------------------------------------------------
\* C5
\* ------------------------------------------------------------------------

\* Every character of the name is whitespace (the empty name included).
Blank(name) == \A i \in 1..Len(name) : name[i] \in Whitespace

\* The sanitized form of the name holds "..", "/" or "\".
Unsafe(name) ==
    \/ contains(sanitize(name), <<".", ".">>)
    \/ contains(sanitize(name), <<"/">>)
    \/ contains(sanitize(name), <<"\\">>)

\* C5: profile_dir raises ProfileValidationError for every blank name and
\* every name whose sanitized form is unsafe, and for every other name
\* returns a direct child of the profiles root: the root followed by the
\* sanitized form.
C5_ProfileDirIsChild ==
    dir_result.err # "unset" =>
        IF Blank(dir_name) \/ Unsafe(dir_name)
        THEN dir_result.err = "ProfileValidationError"
        ELSE /\ dir_result.err = ""
             /\ Len(dir_result.path) = Len(PROFILES_DIR) + 1
             /\ dir_result.path = Append(PROFILES_DIR, sanitize(dir_name))

\* ------------------------------------------------------------------------
\* C6
\* ------------------------------------------------------------------------

\* C6: no two records stored under different names have the same path.
C6_OneRecordPerDirectory ==
    \A n \in DOMAIN metadata_file.data, m \in DOMAIN metadata_file.data :
        n # m => metadata_file.data[n].path # metadata_file.data[m].path

\* ------------------------------------------------------------------------
\* C7
\* ------------------------------------------------------------------------

\* C7: rename_profile(old, new) raises ProfileNotFoundError when the
\* directory of old is absent and ProfileAlreadyExistsError when the
\* directory of new is present, and in both cases leaves the metadata
\* document and every directory as they were.
C7_RenameRejected ==
    [][ ( /\ OperationStep
          /\ last'.op = "rename_profile"
          /\ valid(last'.name) /\ valid(last'.new) )
        => ( /\ ~exists(Before, dir_of(last'.name))
                => (last'.err = "ProfileNotFoundError" /\ After = Before)
             /\ (exists(Before, dir_of(last'.name)) /\ exists(Before, dir_of(last'.new)))
                => (last'.err = "ProfileAlreadyExistsError" /\ After = Before) ) ]_vars

\* ------------------------------------------------------------------------
\* C8
\* ------------------------------------------------------------------------

\* C8: when rename_profile(A, B) and then rename_profile(B, A) have
\* succeeded, starting from a store with a record and a directory for A and
\* no record for B, the metadata document and the directories are what they
\* were before the first rename.
C8_RenameRoundTrip ==
    ( /\ snapshot.phase = 2
      /\ has_record(snapshot.fs, snapshot.old)
      /\ exists(snapshot.fs, dir_of(snapshot.old))
      /\ ~has_record(snapshot.fs, snapshot.new) )
    => ( /\ metadata_file = snapshot.fs.meta
         /\ dirs = snapshot.fs.dirs )

\* ------------------------------------------------------------------------
\* C9
\* ------------------------------------------------------------------------

\* C9: duplicate_profile(source, new) raises ProfileNotFoundError when the
\* directory of source is absent and ProfileAlreadyExistsError when the
\* directory of new is present, and a duplicate that fails while the
\* directory of new existed leaves that directory and the record of new as
\* they were.
C9_DuplicateRejected ==
    [][ ( /\ OperationStep
          /\ last'.op = "duplicate_profile"
          /\ valid(last'.name) /\ valid(last'.new) )
        => ( /\ ~exists(Before, dir_of(last'.name))
                => last'.err = "ProfileNotFoundError"
             /\ (exists(Before, dir_of(last'.name)) /\ exists(Before, dir_of(last'.new)))
                => last'.err = "ProfileAlreadyExistsError"
             /\ (last'.err # "" /\ exists(Before, dir_of(last'.new)))
                => /\ exists(After, dir_of(last'.new))
                   /\ has_record(Before, last'.new) => has_record(After, last'.new) ) ]_vars

\* ------------------------------------------------------------------------
\* C10
\* ------------------------------------------------------------------------

\* C10: after a successful duplicate_profile(source, new) that stored a
\* record for new, the fingerprint of new differs from the fingerprint of
\* source in user_agent or in webgl_renderer.
C10_DuplicateFreshFingerprint ==
    ( /\ last.op = "duplicate_profile"
      /\ last.err = ""
      /\ has_record(Before, last.name)
      /\ has_record(Before, last.new)
      /\ metadata_file.data[last.name].fingerprint # <<>> )
    => LET src == metadata_file.data[last.name].fingerprint[1]
           new == metadata_file.data[last.new].fingerprint[1]
       IN  src.user_agent # new.user_agent \/ src.webgl_renderer # new.webgl_renderer

\* ------------------------------------------------------------------------
\* C11
\* ------------------------------------------------------------------------

\* s begins with prefix
starts_with(s, prefix) ==
    Len(prefix) <= Len(s) /\ SubSeq(s, 1, Len(prefix)) = prefix

\* The provenance line duplicate_profile puts in front of the notes.
provenance(source_name) == <<"Duplicated from: ">> \o source_name \o <<"\n">>

\* C11: every duplicate_profile(source, new) that returns True has stored a
\* record under new whose proxy is the proxy of the source's record and
\* whose notes begin with the provenance line naming the source, and has
\* left the source's record as it was.
C11_DuplicatePersistsRecord ==
    [][ ( /\ OperationStep
          /\ last'.op = "duplicate_profile"
          /\ last'.err = "" )
        => ( /\ has_record(Before, last'.name)
             /\ has_record(After, last'.new)
             /\ After.meta.data[last'.new].proxy = Before.meta.data[last'.name].proxy
             /\ starts_with(After.meta.data[last'.new].notes, provenance(last'.name))
             /\ has_record(After, last'.name)
             /\ After.meta.data[last'.name] = Before.meta.data[last'.name] ) ]_vars

\* ------------------------------------------------------------------------
\* C12
\* ------------------------------------------------------------------------

\* C12: update_profile(name, ...) called while the readable metadata
\* document holds no record under name raises ProfileNotFoundError and
\* leaves the metadata document and every directory as they were.
C12_UpdateAbsentRejected ==
    [][ ( /\ OperationStep
          /\ last'.op = "update_profile"
          /\ metadata_file.state # "corrupt"
          /\ last'.name \notin DOMAIN metadata_file.data )
        => ( /\ last'.err = "ProfileNotFoundError"
             /\ After = Before ) ]_vars

\* ------------------------------------------------------------------------
\* C13
\* ------------------------------------------------------------------------

\* A ProxyConfig whose server is the empty string: what is left of the
\* proxy form of the edit dialog once every field is cleared, had the dialog
\* built a ProxyConfig from it.
ProxyBlank == [server |-> "", username |-> <<>>, password |-> <<>>]

\* The arguments update_profile can be called with: None (<<>>) or a value.
UpdateFingerprints ==
    {<<>>} \cup {<<fingerprint_of("linux", <<>>, v, w)>> :
                    v \in 1..NumChromeVersions, w \in 1..NumWebglConfigs}
UpdateProxies == {<<>>, <<Proxy1>>, <<ProxyBlank>>}
UpdateNotes   == {<<>>, <<<<>>>>, <<<<"n">>>>}
UpdateEngines == {<<>>} \cup {<<e>> : e \in Engines}

\* The operations without faults, under every "browser_engine" setting,
\* with and without a proxy, update_profile with every combination of a
\* proxy, notes and engine argument.
NextUpdate ==
    \/ \E name \in DataNames, proxy \in Proxies, engine \in Engines :
          CreateProfile(name, "windows", <<>>, proxy, <<>>, engine, "none",
                        FirstDraw, FirstDraw)
    \/ \E name \in DataNames, proxy \in Proxies, notes \in {<<>>, <<<<"n">>>>},
          engine \in UpdateEngines :
          UpdateProfile(name, <<>>, proxy, notes, engine, "none")
    \/ \E name \in DataNames : DeleteProfile(name, "none")

SpecUpdate == InitEngine /\ [][NextUpdate]_vars

\* C13: for every profile whose record has a proxy there is a successful
\* call of update_profile after which the record's proxy is None, and every
\* successful call whose proxy argument is left out leaves the record's
\* proxy as it was.
C13_ProxyCanBeCleared ==
    \A name \in DataNames :
        ( has_record(Before, name) /\ metadata_file.data[name].proxy # <<>> )
        => ( /\ \E fingerprint \in UpdateFingerprints, proxy \in UpdateProxies,
                   notes \in UpdateNotes, engine \in UpdateEngines :
                   LET out == update_profile(Before, name, fingerprint, proxy,
                                             notes, engine, "none")
                   IN  /\ out.err = ""
                       /\ out.fs.meta.data[name].proxy = <<>>
             /\ \A fingerprint \in UpdateFingerprints,
                   notes \in UpdateNotes, engine \in UpdateEngines :
                   LET out == update_profile(Before, name, fingerprint, <<>>,
                                             notes, engine, "none")
                   IN  out.err = ""
                       => out.fs.meta.data[name].proxy = metadata_file.data[name].proxy )

\* ------------------------------------------------------------------------
\* C14
\* ------------------------------------------------------------------------

\* The value a field of the record has after update_profile according to
\* the argument: the argument when one is given, the old value otherwise.
overwritten(arg, old) == IF arg # <<>> THEN arg[1] ELSE old

\* C14: a successful update_profile(name, ...) sets each of fingerprint,
\* proxy, notes and engine of the record to the argument given for it and
\* leaves it as it was when no argument is given; name, created, path and
\* last_launched of the record, every other record and the set of records
\* are as they were.
C14_UpdateOverwritesExactly ==
    \A name \in DataNames, fingerprint \in UpdateFingerprints, proxy \in UpdateProxies,
       notes \in UpdateNotes, engine \in UpdateEngines :
        LET out == update_profile(Before, name, fingerprint, proxy, notes, engine, "none")
            old == metadata_file.data[name]
            new == out.fs.meta.data[name]
        IN  ( has_record(Before, name) /\ out.err = "" )
            => ( /\ has_record(out.fs, name)
                 /\ new.fingerprint = IF fingerprint # <<>>
                                      THEN <<asdict(fingerprint[1])>> ELSE old.fingerprint
                 /\ new.proxy = IF proxy # <<>> THEN <<proxy_to_dict(proxy[1])>> ELSE old.proxy
                 /\ new.notes = overwritten(notes, old.notes)
                 /\ new.engine = overwritten(engine, old.engine)
                 /\ new.name = old.name
                 /\ new.created = old.created
                 /\ new.path = old.path
                 /\ new.last_launched = old.last_launched
                 /\ DOMAIN out.fs.meta.data = DOMAIN metadata_file.data
                 /\ \A other \in DOMAIN metadata_file.data \ {name} :
                       out.fs.meta.data[other] = metadata_file.data[other] )

\* ------------------------------------------------------------------------
\* C15
\* ------------------------------------------------------------------------

\* pdir.rglob('*'): the files at or below pdir, each as <<directory, file>>
\* (below the profiles root that is profiles.json as well).
rglob(fs, pdir) ==
    {e \in {d \in DOMAIN fs.dirs : starts_with(d, pdir)}
              \X {"notes", "fingerprint", "proxy"} : fs.dirs[e[1]][e[2]] # <<>>}
    \cup (IF pdir = PROFILES_DIR /\ fs.meta.state # "absent"
          THEN {<<PROFILES_DIR, "profiles.json">>} ELSE {})

\* f.stat().st_size, in the units the model keeps of a file's content: the
\* pieces of a text, the entries of a JSON object.
st_size(fs, e) ==
    IF e[2] = "profiles.json" THEN Cardinality(DOMAIN fs.meta.data)
    ELSE IF e[2] = "notes" THEN Len(fs.dirs[e[1]][e[2]][1])
    ELSE Cardinality(DOMAIN fs.dirs[e[1]][e[2]][1])

RECURSIVE sum_sizes(_, _)
sum_sizes(fs, entries) ==
    IF entries = {} THEN 0
    ELSE LET e == CHOOSE x \in entries : TRUE
         IN  st_size(fs, e) + sum_sizes(fs, entries \ {e})

\* What the filesystem answers for one entry of the walk: "ok" (a regular
\* file whose stat succeeds), "not_file" (is_file() is False: the entry is
\* gone or is no regular file, the failing stat inside is_file() is
\* swallowed), "stat_fails" (is_file() is True and the f.stat() that follows
\* raises OSError: the file was removed in between, or may not be read).
StatOutcomes == {"ok", "not_file", "stat_fails"}

\* ProfileManager.get_profile_size; stat maps every entry of the walk to
\* what the filesystem answers for it.  value is the number returned when
\* err is "".
get_profile_size(fs, name, stat) ==
    LET pd == profile_dir(name)
        pdir == pd.path
        entries == rglob(fs, pdir)
    IN  IF pd.err # "" THEN [err |-> translate(pd.err), value |-> 0]
        ELSE IF ~exists(fs, pdir)
             THEN [err |-> translate("ProfileNotFoundError"), value |-> 0]
        ELSE IF \E e \in entries : stat[e] = "stat_fails"
             THEN [err |-> translate("OSError"), value |-> 0]
        ELSE [err |-> "",
              value |-> sum_sizes(fs, {e \in entries : stat[e] = "ok"})]

\* C15: get_profile_size(name) on a name whose directory exists returns,
\* whatever the stat of each file answers, the sum of the sizes of the files
\* whose stat succeeded; on a name whose directory is absent it raises
\* ProfileNotFoundError.
C15_SizeToleratesStatFailures ==
    \A name \in DataNames :
        \A stat \in [rglob(Before, dir_of(name)) -> StatOutcomes] :
            LET size == get_profile_size(Before, name, stat)
            IN  IF exists(Before, dir_of(name))
                THEN /\ size.err = ""
                     /\ size.value =
                           sum_sizes(Before, {e \in rglob(Before, dir_of(name)) :
                                                 stat[e] = "ok"})
                ELSE size.err = "ProfileNotFoundError"

\* ------------------------------------------------------------------------
\* C17
\* ------------------------------------------------------------------------

\* The BrowserFingerprint that CreateProfileDialog._create_profile builds
\* from its form (custom user agent, platform chosen in the form, the WebGL
\* defaults of the form).
DialogFingerprint ==
    BrowserFingerprint(
        [user_agent     |-> <<"custom agent">>,
         platform       |-> "MacIntel",
         vendor         |-> "Google Inc.",
         renderer       |-> "Google Inc. (NVIDIA)",
         color_depth    |-> 24,
         webgl_vendor   |-> "Google Inc. (NVIDIA)",
         webgl_renderer |-> "ANGLE (NVIDIA GeForce GTX 1660 Ti)"])

\* create_profile with every outcome of the generator's draws on both
\* operating systems, create_profile_with_fingerprint with and without a
\* fingerprint of the caller, and delete_profile; no faults.
NextCreate ==
    \/ \E name \in DataNames, os_type \in {"windows", "linux"},
          v \in 1..NumChromeVersions, w \in 1..NumWebglConfigs :
          CreateProfile(name, os_type, <<>>, <<>>, <<>>, "chromedriver", "none", v, w)
    \/ \E name \in DataNames, fingerprint \in {<<>>, <<DialogFingerprint>>},
          v \in 1..NumChromeVersions, w \in 1..NumWebglConfigs :
          CreateProfileWithFingerprint(name, "windows", <<>>, fingerprint, <<>>, <<>>,
                                       "chromedriver", "none", v, w)
    \/ \E name \in DataNames : DeleteProfile(name, "none")

SpecCreate == Init /\ [][NextCreate]_vars

\* profiles.json holds what json.dump wrote of the records' dictionaries and
\* _load_metadata reads it back with json.load; on the values a record is
\* made of (strings, integers, None, dictionaries with string keys) the two
\* are inverse, so the document is kept as the mapping json.load returns.

MaxThreads == 2

\* str(path), the string of the profiles root standing as one symbol.
str_path(p) ==
    IF p = PROFILES_DIR THEN <<"profiles">>
    ELSE <<"profiles", "/">> \o join(<<"/">>, p)

\* The arguments of the top-level browser process that ChromeDriverEngine.run
\* starts for profile_dir (the arguments in front of --user-data-dir hold no
\* path).
cmdline_list(pdir) ==
    << <<"--user-data-dir=">> \o str_path(pdir), <<"--start-maximized">> >>

\* ' '.join(cmdline_list)
cmdline(args) == join(<<" ">>, args)

\* A browser started for profile_dir: the top-level process and, as one
\* entry, the helper processes below it, which carry a --type= argument
\* after the arguments of the top-level process.
new_process(pdir) ==
    [main |-> "running", helpers |-> "running", name |-> <<"chrome">>,
     cmdline |-> cmdline_list(pdir)]

\* psutil.process_iter(['pid', 'name', 'cmdline']): the info of every
\* running process, top-level and helper.
process_iter(procs) ==
    {[name |-> procs[pid].name, cmdline |-> procs[pid].cmdline] :
        pid \in {q \in 1..Len(procs) : procs[q].main = "running"}}
    \cup
    {[name |-> procs[pid].name,
      cmdline |-> Append(procs[pid].cmdline, <<"--type=", "renderer">>)] :
        pid \in {q \in 1..Len(procs) : procs[q].helpers = "running"}}

\* str.lower() of an executable name.
lower(name) == [i \in DOMAIN name |-> IF name[i] = "Chrome" THEN "chrome" ELSE name[i]]

\* BrowserProcess.__init__
BrowserProcess(profile_name, pid, now) ==
    [profile_name |-> profile_name, pid |-> pid, started_at |-> now]

\* BrowserProcess.is_alive: psutil.Process(pid).is_running(), False on
\* NoSuchProcess.
is_alive(procs, pid) == pid \in 1..Len(procs) /\ procs[pid].main = "running"

\* The processes the scan of is_running accepts: str(pdir) somewhere in the
\* joined command line, 'chrome' or 'msedge' in the lowered name, and no
\* argument that starts with --type=.
scan(procs, pdir) ==
    {proc \in process_iter(procs) :
        /\ contains(cmdline(proc.cmdline), str_path(pdir))
        /\ \/ contains(lower(proc.name), <<"chrome">>)
           \/ contains(lower(proc.name), <<"msedge">>)
        /\ ~\E i \in DOMAIN proc.cmdline : starts_with(proc.cmdline[i], <<"--type=">>)}

\* ProfileManager._ensure_metadata, run by every ProfileManager(): a missing
\* document is written as the empty mapping.
_ensure_metadata(fs) ==
    IF fs.meta.state = "absent"
    THEN _save_metadata(fs, EmptyMap, "none")
    ELSE [err |-> "", fs |-> fs]

\* BrowserLauncher.is_running; every exception of the fallback (of
\* ProfileManager() and of profile_dir) is swallowed and leaves False.
is_running(fs, registry, procs, profile_name) ==
    IF profile_name \in DOMAIN registry /\ is_alive(procs, registry[profile_name].pid)
    THEN TRUE
    ELSE IF _ensure_metadata(fs).err # "" THEN FALSE
    ELSE IF profile_dir(profile_name).err # "" THEN FALSE
    ELSE scan(procs, profile_dir(profile_name).path) # {}

\* The filesystem BrowserLauncher.is_running leaves: the fallback builds a
\* ProfileManager.
is_running_leaves(fs, registry, procs, profile_name) ==
    IF profile_name \in DOMAIN registry /\ is_alive(procs, registry[profile_name].pid)
    THEN fs
    ELSE _ensure_metadata(fs).fs

\* BrowserProcess.kill; denied: process.kill() of the main process raises
\* AccessDenied.
kill(procs, pid, denied) ==
    IF ~is_alive(procs, pid)
    THEN [success |-> FALSE, processes |-> procs]
    ELSE IF denied
    THEN [success |-> FALSE, processes |-> [procs EXCEPT ![pid].helpers = "exited"]]
    ELSE [success |-> TRUE,
          processes |-> [procs EXCEPT ![pid].helpers = "exited", ![pid].main = "exited"]]

\* BrowserLauncher.kill_process
kill_process(registry, procs, profile_name, denied) ==
    IF profile_name \in DOMAIN registry
    THEN LET killed == kill(procs, registry[profile_name].pid, denied)
         IN  [returned  |-> killed.success,
              registry  |-> IF killed.success THEN remove(registry, profile_name)
                            ELSE registry,
              processes |-> killed.processes]
    ELSE [returned |-> FALSE, registry |-> registry, processes |-> procs]

\* BrowserLauncher.get_active_processes: the entries whose process is not
\* alive are deleted, a copy of the rest is returned.
get_active_processes(registry, procs) ==
    [n \in {m \in DOMAIN registry : is_alive(procs, registry[m].pid)} |-> registry[n]]

\* A thread that launch has started and that has not run yet.
new_thread(pdir, profile_name, engine) ==
    [profile_dir |-> pdir, profile_name |-> profile_name, engine |-> engine,
     pc |-> "start", pid |-> 0]

\* A launch that starts its thread regardless of is_running.
launch_unchecked(fs, registry, procs, thrs, pdir, profile_name, engine) ==
    [err |-> "", threads |-> Append(thrs, new_thread(pdir, profile_name, engine)),
     fs |-> fs]

\* BrowserLauncher.launch: RuntimeError("... is already running") when
\* is_running, else the thread running _run is started.
launch(fs, registry, procs, thrs, pdir, profile_name, engine) ==
    IF is_running(fs, registry, procs, profile_name)
    THEN [err |-> "RuntimeError", threads |-> thrs,
          fs  |-> is_running_leaves(fs, registry, procs, profile_name)]
    ELSE [err |-> "", threads |-> Append(thrs, new_thread(pdir, profile_name, engine)),
          fs  |-> is_running_leaves(fs, registry, procs, profile_name)]

\* A launch through the profile manager that writes the time of the launch
\* into 'created' as well.
launch_from_profile_manager_recreating(fs, registry, procs, thrs, profile_name, engine, fault, now) ==
    LET profile == get_profile(fs, profile_name)
        pd == profile_dir(profile_name)
        loaded == _load_metadata(fs, fault)
        prof == [loaded.metadata[profile_name] EXCEPT !.last_launched = <<now>>,
                                                      !.created = now]
        saved == IF loaded.err = "" /\ profile_name \in DOMAIN loaded.metadata
                 THEN _save_metadata(fs, put(loaded.metadata, profile_name, prof), fault)
                 ELSE [err |-> "", fs |-> fs]
        stopped(err) == [err |-> err, threads |-> thrs, fs |-> fs]
    IN  IF profile.err # "" THEN stopped(profile.err)
        ELSE IF profile.value = <<>> THEN stopped("FileNotFoundError")
        ELSE IF pd.err # "" THEN stopped(pd.err)
        ELSE launch(saved.fs, registry, procs, thrs, pd.path, profile_name,
                    <<IF engine # <<>> THEN engine[1] ELSE browser_engine>>)

\* A launch through the profile manager that writes last_launched only
\* when the profile is not running.
launch_from_profile_manager_if_idle(fs, registry, procs, thrs, profile_name, engine, fault, now) ==
    LET profile == get_profile(fs, profile_name)
        pd == profile_dir(profile_name)
        loaded == _load_metadata(fs, fault)
        prof == [loaded.metadata[profile_name] EXCEPT !.last_launched = <<now>>]
        saved == IF /\ loaded.err = ""
                    /\ profile_name \in DOMAIN loaded.metadata
                    /\ ~is_running(fs, registry, procs, profile_name)
                 THEN _save_metadata(fs, put(loaded.metadata, profile_name, prof), fault)
                 ELSE [err |-> "", fs |-> fs]
        stopped(err) == [err |-> err, threads |-> thrs, fs |-> fs]
    IN  IF profile.err # "" THEN stopped(profile.err)
        ELSE IF profile.value = <<>> THEN stopped("FileNotFoundError")
        ELSE IF pd.err # "" THEN stopped(pd.err)
        ELSE launch(saved.fs, registry, procs, thrs, pd.path, profile_name,
                    <<IF engine # <<>> THEN engine[1] ELSE browser_engine>>)

\* BrowserLauncher.launch_from_profile_manager; fault strikes the
\* _save_metadata of last_launched, whose exceptions are swallowed.
launch_from_profile_manager(fs, registry, procs, thrs, profile_name, engine, fault, now) ==
    LET profile == get_profile(fs, profile_name)
        pd == profile_dir(profile_name)
        fingerprint == profile.value[1].fingerprint
        loaded == _load_metadata(fs, fault)
        prof == [loaded.metadata[profile_name] EXCEPT !.last_launched = <<now>>]
        saved == IF loaded.err = "" /\ profile_name \in DOMAIN loaded.metadata
                 THEN _save_metadata(fs, put(loaded.metadata, profile_name, prof), fault)
                 ELSE [err |-> "", fs |-> fs]
        stopped(err) == [err |-> err, threads |-> thrs, fs |-> fs]
    IN  IF profile.err # "" THEN stopped(profile.err)
        ELSE IF profile.value = <<>> THEN stopped("FileNotFoundError")
        ELSE IF pd.err # "" THEN stopped(pd.err)
        ELSE IF fingerprint # <<>> /\ fingerprint_from_dict(fingerprint[1]).err # ""
             THEN stopped(fingerprint_from_dict(fingerprint[1]).err)
        ELSE launch(saved.fs, registry, procs, thrs, pd.path, profile_name,
                    <<IF engine # <<>> THEN engine[1] ELSE browser_engine>>)

\* A call of the launcher returned: the call, its error and its return value
\* are recorded.
Called(op, profile_name, err, value) ==
    /\ last' = [op |-> op, name |-> profile_name, new |-> <<>>, err |-> err]
    /\ returned' = value
    /\ snapshot' = NoSnapshot
    /\ used_fingerprint' = <<>>
    /\ UNCHANGED <<browser_engine, clock, dir_name, dir_result, calls, service_vars>>

\* A step of a launch thread or of the operating system: no call returned.
Background ==
    /\ last' = NoOperation
    /\ returned' = <<>>
    /\ UNCHANGED <<metadata_file, dirs, browser_engine, clock, snapshot, dir_name,
                   dir_result, used_fingerprint, calls, service_vars>>

\* BrowserLauncher.is_running(profile_name)
IsRunning(profile_name) ==
    LET fs == FileSystem(dirs, metadata_file)
        fs1 == is_running_leaves(fs, _active_processes, processes, profile_name)
    IN  /\ Called("is_running", profile_name, "",
                  <<is_running(fs, _active_processes, processes, profile_name)>>)
        /\ dirs' = fs1.dirs
        /\ metadata_file' = fs1.meta
        /\ UNCHANGED <<_active_processes, processes, threads>>

\* BrowserLauncher.launch(profile_dir, profile_name, engine=engine), called
\* with the directory of the profile.
Launch(profile_name, engine) ==
    LET out == launch(FileSystem(dirs, metadata_file), _active_processes, processes,
                      threads, profile_dir(profile_name).path, profile_name, engine)
    IN  /\ profile_dir(profile_name).err = ""
        /\ Len(out.threads) <= MaxThreads
        /\ Called("launch", profile_name, out.err, <<>>)
        /\ dirs' = out.fs.dirs
        /\ metadata_file' = out.fs.meta
        /\ threads' = out.threads
        /\ UNCHANGED <<_active_processes, processes>>

\* BrowserLauncher.launch_from_profile_manager(profile_name, engine=engine)
LaunchFromProfileManager(profile_name, engine, fault) ==
    LET out == launch_from_profile_manager(
                   FileSystem(dirs, metadata_file), _active_processes, processes,
                   threads, profile_name, engine, fault, clock)
    IN  /\ Len(out.threads) <= MaxThreads
        /\ Called("launch_from_profile_manager", profile_name, out.err, <<>>)
        /\ dirs' = out.fs.dirs
        /\ metadata_file' = out.fs.meta
        /\ threads' = out.threads
        /\ UNCHANGED <<_active_processes, processes>>

\* BrowserLauncher.kill_process(profile_name)
KillProcess(profile_name, denied) ==
    LET out == kill_process(_active_processes, processes, profile_name, denied)
    IN  /\ Called("kill_process", profile_name, "", <<out.returned>>)
        /\ _active_processes' = out.registry
        /\ processes' = out.processes
        /\ UNCHANGED <<metadata_file, dirs, threads>>

\* BrowserLauncher.get_active_processes()
GetActiveProcesses ==
    /\ Called("get_active_processes", <<>>, "",
              <<get_active_processes(_active_processes, processes)>>)
    /\ _active_processes' = get_active_processes(_active_processes, processes)
    /\ UNCHANGED <<metadata_file, dirs, processes, threads>>

\* The finally of _run: the entry of the profile's name is deleted, whichever
\* thread registered it.
finished(t) ==
    /\ threads' = [threads EXCEPT ![t].pc = "finished"]
    /\ _active_processes' = remove(_active_processes, threads[t].profile_name)

\* _run up to uc.Chrome(options=options): the engine is resolved and the
\* browser is started; an unknown engine, and a browser that does not start
\* (started = FALSE), raise into the except and the finally of _run.
RunStart(t, started) ==
    LET engine_local == IF threads[t].engine # <<>> THEN threads[t].engine[1]
                        ELSE browser_engine
    IN  /\ threads[t].pc = "start"
        /\ Background
        /\ IF engine_local = "chromedriver" /\ started
           THEN /\ processes' = Append(processes, new_process(threads[t].profile_dir))
                /\ threads' = [threads EXCEPT ![t].pc = "spawned",
                                              ![t].pid = Len(processes) + 1]
                /\ UNCHANGED _active_processes
           ELSE /\ finished(t)
                /\ UNCHANGED processes

\* register_process(browser_pid), the callback of _run.
RunRegister(t) ==
    /\ threads[t].pc = "spawned"
    /\ Background
    /\ _active_processes' =
          put(_active_processes, threads[t].profile_name,
              BrowserProcess(threads[t].profile_name, threads[t].pid, clock))
    /\ threads' = [threads EXCEPT ![t].pc = "monitor"]
    /\ UNCHANGED processes

\* The monitoring loop ends (no window is left, or the session ended),
\* driver.quit() ends the browser, and _run reaches its finally.
RunFinish(t) ==
    /\ threads[t].pc = "monitor"
    /\ Background
    /\ processes' = [processes EXCEPT ![threads[t].pid].main = "exited",
                                      ![threads[t].pid].helpers = "exited"]
    /\ finished(t)

\* A browser process ends on its own: closed by the user, or crashed.
ProcessExits(pid) ==
    /\ processes[pid].main = "running"
    /\ Background
    /\ processes' = [processes EXCEPT ![pid].main = "exited", ![pid].helpers = "exited"]
    /\ UNCHANGED <<_active_processes, threads>>

\* The profiles the launcher is called for: "a" and "a_a", the directory of
\* the first being a prefix of the directory of the second.
LaunchNames == {NameA, NameAUsA}

\* The profiles are launched with the configured engine, asked about and
\* killed; the registry is listed; launch threads and browser processes run
\* between the calls, and a browser may fail to start.
NextLauncher ==
    \/ \E name \in LaunchNames : IsRunning(name)
    \/ \E name \in LaunchNames : Launch(name, <<>>)
    \/ \E name \in LaunchNames, denied \in BOOLEAN : KillProcess(name, denied)
    \/ GetActiveProcesses
    \/ \E t \in 1..Len(threads), started \in BOOLEAN : RunStart(t, started)
    \/ \E t \in 1..Len(threads) : RunRegister(t)
    \/ \E t \in 1..Len(threads) : RunFinish(t)
    \/ \E pid \in 1..Len(processes) : ProcessExits(pid)

SpecLauncher == Init /\ [][NextLauncher]_vars

\* ------------------------------------------------------------------------
\* C18
\* ------------------------------------------------------------------------

\* The error launch raises for a profile that is running:
\* RuntimeError("Profile '...' is already running").
AlreadyRunningError == "RuntimeError"

\* The registry holds an entry for profile_name whose process is alive.
registered_alive(profile_name) ==
    /\ profile_name \in DOMAIN _active_processes
    /\ is_alive(processes, _active_processes[profile_name].pid)

\* C18: a launch for a name whose registry entry has a live process fails
\* with the already-running error, and the step starts no launch thread,
\* spawns no process and leaves the registry as it was.
C18_LaunchWhileRunningRejected ==
    [][(OperationStep /\ last'.op = "launch" /\ registered_alive(last'.name))
         => /\ last'.err = AlreadyRunningError
            /\ threads' = threads
            /\ processes' = processes
            /\ _active_processes' = _active_processes]_vars

\* A launch was rejected for a profile whose registered process is alive.
C18_Witness ==
    /\ last.op = "launch"
    /\ last.err = AlreadyRunningError
    /\ registered_alive(last.name)

\* ------------------------------------------------------------------------
\* C19
\* ------------------------------------------------------------------------

\* The process pid and the processes below it have ended.
terminated(procs, pid) ==
    /\ pid \in 1..Len(procs)
    /\ procs[pid].main = "exited"
    /\ procs[pid].helpers = "exited"

\* C19: kill_process returns False exactly when the registry has no entry
\* for the name at the call; when it has one, the entry's process and the
\* processes below it are terminated, the entry is removed and True is
\* returned.
C19_KillReturnsFalseOnlyWithoutEntry ==
    [][(OperationStep /\ last'.op = "kill_process")
         => /\ (returned' = <<FALSE>>) <=> (last'.name \notin DOMAIN _active_processes)
            /\ last'.name \in DOMAIN _active_processes
                 => /\ terminated(processes', _active_processes[last'.name].pid)
                    /\ last'.name \notin DOMAIN _active_processes'
                    /\ returned' = <<TRUE>>]_vars

\* ------------------------------------------------------------------------
\* C20
\* ------------------------------------------------------------------------

\* C20: after kill_process has returned for a name that a launch thread
\* registered, is_running of the name is False and the registry has no entry
\* for it, whether the entry's process was alive or had exited at the call.
C20_KilledIsNotRunning ==
    [][(OperationStep /\ last'.op = "kill_process"
          /\ last'.name \in DOMAIN _active_processes)
         => /\ ~is_running(After, _active_processes', processes', last'.name)
            /\ last'.name \notin DOMAIN _active_processes']_vars

\* ------------------------------------------------------------------------
\* C16
\* ------------------------------------------------------------------------

\* The names SpecCorrupt calls the operations with: an ordinary name and
\* the name whose directory is the profiles root.
CorruptNames == {NameA, NameDot}

\* Every operation that loads the store, on CorruptNames; a create whose
\* write of the document fails after the truncation leaves the document
\* undecodable.
NextCorrupt ==
    \/ \E name \in CorruptNames, fault \in {"none", "save_write"} :
          CreateProfile(name, "windows", <<>>, <<>>, <<>>, "chromedriver", fault,
                        FirstDraw, FirstDraw)
    \/ ListProfiles
    \/ \E name \in CorruptNames : GetProfile(name)
    \/ \E name \in CorruptNames :
          UpdateProfile(name, <<>>, <<>>, <<<<"n">>>>, <<>>, "none")
    \/ \E name \in CorruptNames : DeleteProfile(name, "none")
    \/ \E old_name \in CorruptNames, new_name \in CorruptNames :
          RenameProfile(old_name, new_name, "none")
    \/ \E source_name \in CorruptNames, new_name \in CorruptNames :
          DuplicateProfile(source_name, new_name, "none", FirstDraw, FirstDraw)
    \/ \E name \in CorruptNames : LaunchFromProfileManager(name, <<>>, "none")

SpecCorrupt == Init /\ [][NextCorrupt]_vars

\* The operations that load the store.
LoadingOperations ==
    {"list_profiles", "get_profile", "create_profile", "update_profile",
     "delete_profile", "rename_profile", "duplicate_profile",
     "launch_from_profile_manager"}

Inside ==
    /\ last' = NoOperation
    /\ returned' = <<>>
    /\ UNCHANGED <<metadata_file, dirs, browser_engine, clock, snapshot, dir_name,
                   dir_result, used_fingerprint, service_vars>>

\* The call of caller c returned value or raised err.
Returns(c, op, profile_name, err, value) ==
    /\ last' = [op |-> op, name |-> profile_name, new |-> <<>>, err |-> err]
    /\ returned' = value
    /\ calls' = [calls EXCEPT ![c] = NotCalling]
    /\ snapshot' = NoSnapshot
    /\ used_fingerprint' = <<>>
    /\ UNCHANGED <<metadata_file, dirs, browser_engine, clock, dir_name, dir_result,
                   service_vars>>

\* The entries of the registry, and those whose process is not alive.
entries(registry) == {<<n, registry[n].pid>> : n \in DOMAIN registry}

dead_entries(registry, procs) ==
    {entry \in entries(registry) : ~is_alive(procs, entry[2])}

\* get_active_processes: "for profile_name, process in
\* _active_processes.items()" creates the iterator, which remembers the size
\* of the dict.
GapBegin(c) ==
    /\ calls[c].pc = "idle"
    /\ Inside
    /\ calls' = [calls EXCEPT ![c] = [NotCalling EXCEPT
                    !.pc = "iterating",
                    !.view = entries(_active_processes),
                    !.began = dead_entries(_active_processes, processes)]]
    /\ UNCHANGED <<_active_processes, processes, threads>>

\* get_active_processes: the iterator's next item and the body of the loop.
\* The iterator raises RuntimeError("dictionary changed size during
\* iteration") when the dict has another size than at its creation; when
\* the size is the same and the entries are not, it raises
\* RuntimeError("dictionary keys changed during iteration") or goes on,
\* depending on where the entries lie in the dict. It yields as many items
\* as the size at its creation.
GapNext(c) ==
    /\ calls[c].pc = "iterating"
    /\ UNCHANGED <<_active_processes, processes, threads>>
    /\ \/ /\ entries(_active_processes) # calls[c].view
          /\ Returns(c, "get_active_processes", <<>>, "RuntimeError", <<>>)
       \/ /\ Cardinality(DOMAIN _active_processes) = Cardinality(calls[c].view)
          /\ Inside
          /\ IF Cardinality(calls[c].seen) = Cardinality(calls[c].view)
             THEN calls' = [calls EXCEPT ![c].pc = "deleting"]
             ELSE \E n \in DOMAIN _active_processes \ calls[c].seen :
                     calls' = [calls EXCEPT
                         ![c].seen = @ \cup {n},
                         ![c].dead = IF is_alive(processes, _active_processes[n].pid)
                                     THEN @ ELSE @ \cup {n}]

\* get_active_processes: "del _active_processes[profile_name]" for the next
\* name of dead_profiles (KeyError when the key is gone), and after the last
\* one "return _active_processes.copy()".
GapDelete(c) ==
    /\ calls[c].pc = "deleting"
    /\ UNCHANGED <<processes, threads>>
    /\ IF calls[c].dead = {}
       THEN /\ Returns(c, "get_active_processes", <<>>, "", <<_active_processes>>)
            /\ UNCHANGED _active_processes
       ELSE \E n \in calls[c].dead :
               IF n \in DOMAIN _active_processes
               THEN /\ Inside
                    /\ _active_processes' = remove(_active_processes, n)
                    /\ calls' = [calls EXCEPT ![c].dead = @ \ {n}]
               ELSE /\ Returns(c, "get_active_processes", <<>>, "KeyError", <<>>)
                    /\ UNCHANGED _active_processes

\* kill_process: "process = _active_processes.get(profile_name)"; without an
\* entry False is returned.
KillBegin(c, profile_name) ==
    /\ calls[c].pc = "idle"
    /\ UNCHANGED <<_active_processes, processes, threads>>
    /\ IF profile_name \in DOMAIN _active_processes
       THEN /\ Inside
            /\ calls' = [calls EXCEPT ![c] = [NotCalling EXCEPT
                            !.pc = "killing", !.name = profile_name,
                            !.pid = _active_processes[profile_name].pid]]
       ELSE Returns(c, "kill_process", profile_name, "", <<FALSE>>)

\* kill_process: "success = process.kill()"; without success False is
\* returned.
KillKill(c, denied) ==
    LET killed == kill(processes, calls[c].pid, denied)
    IN  /\ calls[c].pc = "killing"
        /\ processes' = killed.processes
        /\ UNCHANGED <<_active_processes, threads>>
        /\ IF killed.success
           THEN /\ Inside
                /\ calls' = [calls EXCEPT ![c].pc = "killed"]
           ELSE Returns(c, "kill_process", calls[c].name, "", <<FALSE>>)

\* kill_process: "del _active_processes[profile_name]" (KeyError when the
\* key is gone) and "return success".
KillDelete(c) ==
    /\ calls[c].pc = "killed"
    /\ UNCHANGED <<processes, threads>>
    /\ IF calls[c].name \in DOMAIN _active_processes
       THEN /\ Returns(c, "kill_process", calls[c].name, "", <<TRUE>>)
            /\ _active_processes' = remove(_active_processes, calls[c].name)
       ELSE /\ Returns(c, "kill_process", calls[c].name, "KeyError", <<>>)
            /\ UNCHANGED _active_processes

\* The monitoring loop of the engine ends and driver.quit() ends the
\* browser; _run enters its finally.
RunQuit(t) ==
    /\ threads[t].pc = "monitor"
    /\ Background
    /\ processes' = [processes EXCEPT ![threads[t].pid].main = "exited",
                                      ![threads[t].pid].helpers = "exited"]
    /\ threads' = [threads EXCEPT ![t].pc = "finally"]
    /\ UNCHANGED _active_processes

\* The finally of _run: "if profile_name in _active_processes".
RunFinallyTest(t) ==
    /\ threads[t].pc = "finally"
    /\ Background
    /\ threads' = [threads EXCEPT ![t].pc =
                      IF threads[t].profile_name \in DOMAIN _active_processes
                      THEN "deleting" ELSE "finished"]
    /\ UNCHANGED <<_active_processes, processes>>

\* A finally that ends the thread and leaves the entry where it is.
RunFinallyLeave(t) ==
    /\ threads[t].pc = "deleting"
    /\ Background
    /\ threads' = [threads EXCEPT ![t].pc = "finished"]
    /\ UNCHANGED <<_active_processes, processes>>

\* The finally of _run: "del _active_processes[profile_name]"; the KeyError
\* of a key that is gone ends the thread.
RunFinallyDelete(t) ==
    /\ threads[t].pc = "deleting"
    /\ Background
    /\ threads' = [threads EXCEPT ![t].pc =
                      IF threads[t].profile_name \in DOMAIN _active_processes
                      THEN "finished" ELSE "failed"]
    /\ _active_processes' = remove(_active_processes, threads[t].profile_name)
    /\ UNCHANGED processes

\* The profile the interleavings are explored for.
RaceNames == {NameA}

\* Launches, and the statements of get_active_processes, of kill_process and
\* of the launch threads in every interleaving.
NextRace ==
    \/ \E name \in RaceNames : Launch(name, <<>>)
    \/ \E c \in Callers : GapBegin(c)
    \/ \E c \in Callers : GapNext(c)
    \/ \E c \in Callers : GapDelete(c)
    \/ \E c \in Callers, name \in RaceNames : KillBegin(c, name)
    \/ \E c \in Callers : KillKill(c, FALSE)
    \/ \E c \in Callers : KillDelete(c)
    \/ \E t \in 1..Len(threads) : RunStart(t, TRUE)
    \/ \E t \in 1..Len(threads) : RunRegister(t)
    \/ \E t \in 1..Len(threads) : RunQuit(t)
    \/ \E t \in 1..Len(threads) : RunFinallyTest(t)
    \/ \E t \in 1..Len(threads) : RunFinallyDelete(t)
    \/ \E pid \in 1..Len(processes) : ProcessExits(pid)

SpecRace == Init /\ [][NextRace]_vars

\* ------------------------------------------------------------------------
\* C21
\* ------------------------------------------------------------------------

\* The mapping holds name with the process pid.
holds(registry, entry) ==
    entry[1] \in DOMAIN registry /\ registry[entry[1]].pid = entry[2]

\* C21: a call of get_active_processes returns a mapping; no entry whose
\* process was not alive when the call began is in the mapping or left in
\* the registry; and the entries the call deletes are entries whose process
\* is not alive.
C21_ActiveProcessesPruned ==
    [][\A c \in Callers :
         /\ (calls[c].pc \in {"iterating", "deleting"} /\ calls'[c].pc = "idle")
              => /\ last'.err = ""
                 /\ returned' # <<>>
                 /\ \A entry \in calls[c].began :
                       /\ ~holds(returned'[1], entry)
                       /\ ~holds(_active_processes', entry)
         /\ (calls[c].pc = "deleting" /\ calls'[c].pc = "deleting")
              => \A n \in DOMAIN _active_processes \ DOMAIN _active_processes' :
                    ~is_alive(processes, _active_processes[n].pid)]_vars

\* ------------------------------------------------------------------------
\* C22
\* ------------------------------------------------------------------------

\* How many processes the process table of SpecScan holds at most.
MaxProcesses == 2

\* The processes SpecScan starts with: browsers and another program, started
\* for the directory of "a", for the directory of "a_a" or without a
\* directory, with the top-level process and the helpers running or not.
ScanProcesses ==
    [main : {"running", "exited"}, helpers : {"running", "exited"},
     name : {<<"chrome">>, <<"Chrome">>, <<"msedge">>, <<"python">>},
     cmdline : {cmdline_list(profile_dir(NameA).path),
                cmdline_list(profile_dir(NameAUsA).path),
                << <<"--start-maximized">> >>}]

\* Process tables of up to MaxProcesses processes.
ScanTables == UNION {[1..n -> ScanProcesses] : n \in 0..MaxProcesses}

\* The registry is empty or holds an entry of "a" for pid 1.
InitScan ==
    /\ InitManager
    /\ browser_engine = "chromedriver"
    /\ dir_name = <<>>
    /\ dir_result = [err |-> "unset", path |-> PROFILES_DIR]
    /\ processes \in ScanTables
    /\ _active_processes \in {EmptyMap, [n \in {NameA} |-> BrowserProcess(NameA, 1, 0)]}
    /\ threads = <<>>
    /\ returned = <<>>
    /\ calls = [c \in Callers |-> NotCalling]
    /\ InitServices

NextScan == \E name \in LaunchNames : IsRunning(name)

SpecScan == InitScan /\ [][NextScan]_vars

\* The command line s refers to the directory path: path occurs in s and
\* ends there as a path, at the end of an argument or at a separator.
references(s, path) ==
    \E i \in 1..Len(s) :
        /\ i + Len(path) - 1 <= Len(s)
        /\ SubSeq(s, i, i + Len(path) - 1) = path
        /\ \/ i + Len(path) > Len(s)
           \/ s[i + Len(path)] \in {" ", "/"}

\* C22: is_running(name) is True when the registry has an entry for name
\* whose process is alive; otherwise it is True exactly when some process
\* has a browser's executable name, a command line that refers to the
\* directory of the profile, and no --type= argument.
C22_IsRunningScansTopLevelBrowsers ==
    [][(OperationStep /\ last'.op = "is_running")
         => returned' =
              <<\/ registered_alive(last'.name)
                \/ \E proc \in process_iter(processes) :
                      /\ \/ contains(lower(proc.name), <<"chrome">>)
                         \/ contains(lower(proc.name), <<"msedge">>)
                      /\ references(cmdline(proc.cmdline),
                                    str_path(profile_dir(last'.name).path))
                      /\ ~\E i \in DOMAIN proc.cmdline :
                            starts_with(proc.cmdline[i], <<"--type=">>)>>]_vars

\* ------------------------------------------------------------------------
\* CacheCleaner
\* ------------------------------------------------------------------------
\* A file or directory name is a sequence of pieces chosen so that the words
\* the code looks for ('Cookie', 'History', 'Visited', 'Top Sites') are
\* pieces. A path below the profile directory is the sequence of its names;
\* profile_tree maps the paths that exist to [kind, size], size being
\* st_size.

CACHE_DIRS ==
    << << <<"Cache">> >>,
       << <<"Code Cache">> >>,
       << <<"GPUCache">> >>,
       << <<"Service Worker">>, <<"CacheStorage">> >>,
       << <<"Service Worker">>, <<"ScriptCache">> >>,
       << <<"DawnCache">> >>,
       << <<"ShaderCache">> >> >>

CACHE_FILES ==
    << <<"Cookie", "s">>,
       <<"Cookie", "s-journal">>,
       <<"Network Persistent State">>,
       <<"TransportSecurity">>,
       <<"Favicons">>,
       <<"Favicons-journal">>,
       <<"Top Sites">>,
       <<"Top Sites", "-journal">>,
       <<"Visited", " Links">>,
       <<"History">>,
       <<"History", "-journal">>,
       <<"History", " Provider Cache">>,
       <<"Web Data">>,
       <<"Web Data-journal">>,
       <<"QuotaManager">>,
       <<"QuotaManager-journal">> >>

\* profile_dir / "Default"
default_profile == << <<"Default">> >>

\* The paths strictly below path: path.rglob('*').
below(tree, path) ==
    {q \in DOMAIN tree : Len(q) > Len(path) /\ SubSeq(q, 1, Len(path)) = path}

\* The sum of the sizes of the paths of a set.
RECURSIVE total_size(_, _)
total_size(tree, paths) ==
    IF paths = {} THEN 0
    ELSE LET q == CHOOSE x \in paths : TRUE
         IN  tree[q].size + total_size(tree, paths \ {q})

\* The files _get_dir_size adds up.
files_below(tree, path) == {q \in below(tree, path) : tree[q].kind = "file"}

\* CacheCleaner._get_dir_size
_get_dir_size(tree, path) == total_size(tree, files_below(tree, path))

\* A list that keeps nothing back.
files_to_clean_all(keep_cookies, keep_history) == CACHE_FILES

\* The loop that fills files_to_clean and files_to_count.
files_to_clean(keep_cookies, keep_history) ==
    SelectSeq(CACHE_FILES,
        LAMBDA cache_file :
            /\ ~(keep_cookies /\ contains(cache_file, <<"Cookie">>))
            /\ ~(keep_history /\ (\/ contains(cache_file, <<"History">>)
                                  \/ contains(cache_file, <<"Visited">>)
                                  \/ contains(cache_file, <<"Top Sites">>))))

\* search_locations: the profile directory and, when it exists, Default.
search_locations(tree) ==
    IF default_profile \in DOMAIN tree THEN << <<>>, default_profile >> ELSE << <<>> >>

\* What the two loops of one search location go through, in their order:
\* the cache directories, then the cache files.
targets_in(search_dir, keep_cookies, keep_history) ==
    LET files == files_to_clean(keep_cookies, keep_history)
    IN  [i \in 1..Len(CACHE_DIRS) |-> [kind |-> "dir", path |-> search_dir \o CACHE_DIRS[i]]]
        \o [i \in 1..Len(files) |-> [kind |-> "file", path |-> Append(search_dir, files[i])]]

targets(tree, keep_cookies, keep_history) ==
    IF Len(search_locations(tree)) = 2
    THEN targets_in(<<>>, keep_cookies, keep_history)
         \o targets_in(default_profile, keep_cookies, keep_history)
    ELSE targets_in(<<>>, keep_cookies, keep_history)

\* The tree without the paths of a set.
without(tree, removed) == [q \in DOMAIN tree \ removed |-> tree[q]]

\* shutil.rmtree(path, ignore_errors=True), as the paths it deletes: a path
\* that is not a directory is left; what cannot be deleted (locked) stays,
\* with the directories above it.
rmtree_ignore_errors(tree, path, locked) ==
    IF tree[path].kind # "dir" THEN {}
    ELSE LET stays(q) == \E l \in locked :
                            /\ l \in DOMAIN tree
                            /\ Len(l) >= Len(q)
                            /\ SubSeq(l, 1, Len(q)) = q
         IN  {q \in below(tree, path) \cup {path} : ~stays(q)}

\* One pass of a loop of clean_profile_cache on acc = [bytes_freed, removed],
\* removed being the paths of tree deleted so far, and tree the content at
\* the call.
clean_target(acc, tree, target, locked) ==
    IF target.path \notin DOMAIN tree \/ target.path \in acc.removed THEN acc
    ELSE IF target.kind = "dir"
    THEN [bytes_freed |-> acc.bytes_freed
                            + total_size(tree, files_below(tree, target.path) \ acc.removed),
          removed |-> acc.removed \cup rmtree_ignore_errors(tree, target.path, locked)]
    ELSE IF tree[target.path].kind = "dir" \/ target.path \in locked
    THEN acc
    ELSE [bytes_freed |-> acc.bytes_freed + tree[target.path].size,
          removed |-> acc.removed \cup {target.path}]

\* The passes of the loops from the i-th on. The sum is never negative:
\* testing it has acc evaluated before the next pass.
RECURSIVE clean_from(_, _, _, _, _)
clean_from(acc, tree, ts, i, locked) ==
    IF i > Len(ts) \/ acc.bytes_freed < 0 THEN acc
    ELSE clean_from(clean_target(acc, tree, ts[i], locked), tree, ts, i + 1, locked)

\* CacheCleaner.clean_profile_cache on a profile directory that exists (its
\* content is tree) or does not (tree = <<>>); locked are the paths whose
\* deletion fails.
clean_profile_cache(tree, keep_cookies, keep_history, locked) ==
    IF tree = <<>> THEN [bytes_freed |-> 0, tree |-> <<>>]
    ELSE LET out == clean_from([bytes_freed |-> 0, removed |-> {}], tree[1],
                               targets(tree[1], keep_cookies, keep_history), 1, locked)
         IN  [bytes_freed |-> out.bytes_freed, tree |-> <<without(tree[1], out.removed)>>]

\* One pass of a loop of get_cleanable_size on acc = [total_size, paths],
\* paths being what has been counted.
count_target(acc, tree, target) ==
    IF target.path \notin DOMAIN tree THEN acc
    ELSE IF target.kind = "dir"
    THEN [total_size |-> acc.total_size + _get_dir_size(tree, target.path),
          paths |-> acc.paths \cup files_below(tree, target.path)]
    ELSE [total_size |-> acc.total_size + tree[target.path].size,
          paths |-> acc.paths \cup {target.path}]

\* The passes of the loops from the i-th on; the sum is tested as in
\* clean_from.
RECURSIVE count_from(_, _, _, _)
count_from(acc, tree, ts, i) ==
    IF i > Len(ts) \/ acc.total_size < 0 THEN acc
    ELSE count_from(count_target(acc, tree, ts[i]), tree, ts, i + 1)

\* CacheCleaner.get_cleanable_size
get_cleanable_size(tree, keep_cookies, keep_history) ==
    IF tree = <<>> THEN [total_size |-> 0, paths |-> {}]
    ELSE count_from([total_size |-> 0, paths |-> {}], tree[1],
                    targets(tree[1], keep_cookies, keep_history), 1)

\* The files of a tree.
files_of(tree) == {q \in DOMAIN tree : tree[q].kind = "file"}

\* CacheCleaner.clean_profile_cache(profile_dir, keep_cookies, keep_history);
\* paths records the files the call removed.
CleanProfileCache(keep_cookies, keep_history, locked) ==
    LET out == clean_profile_cache(profile_tree, keep_cookies, keep_history, locked)
    IN  /\ profile_tree' = out.tree
        /\ cleaner' = [op |-> "clean_profile_cache", keep_cookies |-> keep_cookies,
                       keep_history |-> keep_history, value |-> out.bytes_freed,
                       paths |-> IF profile_tree = <<>> THEN {}
                                 ELSE files_of(profile_tree[1]) \ DOMAIN out.tree[1]]
        /\ UNCHANGED <<pm_vars, dir_name, dir_result, used_fingerprint, launcher_vars,
                       monitor_vars, run_vars>>

\* CacheCleaner.get_cleanable_size(profile_dir, keep_cookies, keep_history);
\* paths records what the call counted.
GetCleanableSize(keep_cookies, keep_history) ==
    LET out == get_cleanable_size(profile_tree, keep_cookies, keep_history)
    IN  /\ cleaner' = [op |-> "get_cleanable_size", keep_cookies |-> keep_cookies,
                       keep_history |-> keep_history, value |-> out.total_size,
                       paths |-> out.paths]
        /\ UNCHANGED <<profile_tree, pm_vars, dir_name, dir_result, used_fingerprint,
                       launcher_vars, monitor_vars, run_vars>>

File(size) == [kind |-> "file", size |-> size]
Directory  == [kind |-> "dir", size |-> 4]

\* The profile directories the cleaner is given: none, or one with or
\* without Cookies, History, Favicons (a file, or a directory), Cache (a
\* file, or a directory holding a file named Cookies) and Default (empty, or
\* with history files, or with a cookie journal and a cache).
CleanerTrees ==
    {<<>>} \cup
    {<<a @@ b @@ c @@ d @@ e>> :
        a \in {EmptyMap, << <<"Cookie", "s">> >> :> File(7)},
        b \in {EmptyMap, << <<"History">> >> :> File(3)},
        c \in {EmptyMap,
               << <<"Favicons">> >> :> File(2),
               (<< <<"Favicons">> >> :> Directory)
                  @@ (<< <<"Favicons">>, <<"x">> >> :> File(1))},
        d \in {EmptyMap,
               << <<"Cache">> >> :> File(9),
               (<< <<"Cache">> >> :> Directory)
                  @@ (<< <<"Cache">>, <<"Cookie", "s">> >> :> File(5))},
        e \in {EmptyMap,
               default_profile :> Directory,
               (default_profile :> Directory)
                  @@ (<< <<"Default">>, <<"Top Sites">> >> :> File(6))
                  @@ (<< <<"Default">>, <<"Web Data">> >> :> File(8)),
               (default_profile :> Directory)
                  @@ (<< <<"Default">>, <<"Cookie", "s-journal">> >> :> File(1))
                  @@ (<< <<"Default">>, <<"Cache">> >> :> Directory)
                  @@ (<< <<"Default">>, <<"Cache">>, <<"f">> >> :> File(9))}}

\* What cannot be deleted during a clean: nothing, or one file.
LockedSets ==
    {{}} \cup (IF profile_tree = <<>> THEN {} ELSE {{q} : q \in files_of(profile_tree[1])})

InitCleaner ==
    /\ InitManager
    /\ InitLauncher
    /\ browser_engine = "chromedriver"
    /\ dir_name = <<>>
    /\ dir_result = [err |-> "unset", path |-> PROFILES_DIR]
    /\ profile_tree \in CleanerTrees
    /\ cleaner = NoCleaning
    /\ InitMonitor
    /\ InitRun

NextCleaner ==
    \/ \E keep_cookies \in BOOLEAN, keep_history \in BOOLEAN :
          GetCleanableSize(keep_cookies, keep_history)
    \/ \E keep_cookies \in BOOLEAN, keep_history \in BOOLEAN, locked \in LockedSets :
          CleanProfileCache(keep_cookies, keep_history, locked)

SpecCleaner == InitCleaner /\ [][NextCleaner]_vars

\* ------------------------------------------------------------------------
\* C23
\* ------------------------------------------------------------------------

\* A path directly in the profile directory or directly in Default.
top_level(q) == Len(q) = 1 \/ (Len(q) = 2 /\ SubSeq(q, 1, 1) = default_profile)

\* The name of the path holds one of the words.
named(q, words) == \E word \in words : contains(q[Len(q)], <<word>>)

\* C23: a clean_profile_cache with keep_cookies deletes no file, directly in
\* the profile directory or in Default, whose name holds 'Cookie'; one with
\* keep_history deletes none whose name holds 'History', 'Visited' or
\* 'Top Sites'; one with both deletes none of either.
C23_KeptFilesSurvive ==
    [][(cleaner'.op = "clean_profile_cache" /\ profile_tree # <<>>)
         => \A q \in files_of(profile_tree[1]) :
               (/\ top_level(q)
                /\ \/ cleaner'.keep_cookies /\ named(q, {"Cookie"})
                   \/ cleaner'.keep_history /\ named(q, {"History", "Visited", "Top Sites"}))
               => /\ profile_tree' # <<>>
                  /\ q \in DOMAIN profile_tree'[1]]_vars

\* A clean that kept cookies and history has removed files and left a
\* Cookies and a History file in place.
C23_Witness ==
    /\ cleaner.op = "clean_profile_cache"
    /\ cleaner.keep_cookies
    /\ cleaner.keep_history
    /\ cleaner.paths # {}
    /\ profile_tree # <<>>
    /\ {<< <<"Cookie", "s">> >>, << <<"History">> >>} \subseteq DOMAIN profile_tree[1]

\* ------------------------------------------------------------------------
\* C24
\* ------------------------------------------------------------------------

\* C24: a clean_profile_cache that follows a get_cleanable_size with the
\* same flags, the directory not having changed in between, frees what the
\* preview returned and removes the paths the preview counted.
C24_PreviewEqualsFreed ==
    [][(/\ cleaner.op = "get_cleanable_size"
        /\ cleaner'.op = "clean_profile_cache"
        /\ cleaner'.keep_cookies = cleaner.keep_cookies
        /\ cleaner'.keep_history = cleaner.keep_history)
         => /\ cleaner'.value = cleaner.value
            /\ cleaner'.paths = cleaner.paths]_vars

\* ------------------------------------------------------------------------
\* ProcessMonitorService
\* ------------------------------------------------------------------------

MaxWatchers == 3

\* The profiles of the list MainWindow shows.
MonitorNames == LaunchNames

\* A watch thread as start_monitor starts it: selected_profile is the
\* argument its closure holds; refreshed and details count the calls of the
\* two callbacks; tries counts the passes of its first loop and pid is what
\* it found there.
new_watcher(profile_name, selected) ==
    [profile_name |-> profile_name, selected_profile |-> selected, pc |-> "watching",
     refreshed |-> 0, details |-> 0, tries |-> 0, pid |-> 0]

\* The watch threads of a profile that have not ended.
active_watchers(ws, profile_name) ==
    {w \in DOMAIN ws : ws[w].profile_name = profile_name /\ ws[w].pc = "watching"}

\* ProcessMonitorService.start_monitor
start_monitor(monitored, ws, profile_name, selected) ==
    IF profile_name \in monitored
    THEN [monitored |-> monitored, watchers |-> ws]
    ELSE [monitored |-> monitored \cup {profile_name},
          watchers |-> Append(ws, new_watcher(profile_name, selected))]

\* ProcessMonitorService.stop_monitoring
stop_monitoring(monitored, profile_name) == monitored \ {profile_name}

\* The end of watch(), once its loops have seen the process gone.
watch_exit(watcher) ==
    [watcher EXCEPT !.pc = "exited",
                    !.refreshed = @ + 1,
                    !.details = IF watcher.selected_profile = <<watcher.profile_name>>
                                THEN @ + 1 ELSE @]

MonitorFrame ==
    UNCHANGED <<pm_vars, dir_name, dir_result, used_fingerprint, launcher_vars, profile_tree,
                cleaner, run_vars>>

\* MainWindow.select_profile and MainWindow._close_right_details
SelectProfile(selection) ==
    /\ selected_profile' = selection
    /\ UNCHANGED <<_monitored_profiles, watchers>>
    /\ MonitorFrame

\* The start_monitor call of MainWindow.start_profile.
StartMonitor(profile_name) ==
    LET out == start_monitor(_monitored_profiles, watchers, profile_name, selected_profile)
    IN  /\ Len(out.watchers) <= MaxWatchers
        /\ _monitored_profiles' = out.monitored
        /\ watchers' = out.watchers
        /\ UNCHANGED selected_profile
        /\ MonitorFrame

\* ProcessMonitorService.stop_monitoring(profile_name)
StopMonitoring(profile_name) ==
    /\ _monitored_profiles' = stop_monitoring(_monitored_profiles, profile_name)
    /\ UNCHANGED <<watchers, selected_profile>>
    /\ MonitorFrame

\* A watch thread sees that the browser has ended, and leaves. When the
\* process table says so is left open.
WatchExit(w) ==
    /\ watchers[w].pc = "watching"
    /\ _monitored_profiles' = _monitored_profiles \ {watchers[w].profile_name}
    /\ watchers' = [watchers EXCEPT ![w] = watch_exit(@)]
    /\ UNCHANGED selected_profile
    /\ MonitorFrame

NextMonitor ==
    \/ \E selection \in {<<>>} \cup {<<n>> : n \in MonitorNames} : SelectProfile(selection)
    \/ \E profile_name \in MonitorNames : StartMonitor(profile_name)
    \/ \E profile_name \in MonitorNames : StopMonitoring(profile_name)
    \/ \E w \in DOMAIN watchers : WatchExit(w)

SpecMonitor == Init /\ [][NextMonitor]_vars

\* ------------------------------------------------------------------------
\* C25
\* ------------------------------------------------------------------------

\* C25: whatever start_monitor, stop_monitoring and the ends of the watch
\* threads have done, no profile has two watch threads that have not ended,
\* and no step adds a watch thread for a profile that has one.
C25_OneWatcherPerProfile ==
    [][\A profile_name \in MonitorNames :
          /\ Cardinality(active_watchers(watchers', profile_name)) <= 1
          /\ active_watchers(watchers, profile_name) # {}
               => active_watchers(watchers', profile_name)
                     \subseteq active_watchers(watchers, profile_name)]_vars

\* ------------------------------------------------------------------------
\* C26
\* ------------------------------------------------------------------------

\* C26: a watch thread that leaves has called the refresh callback once, and
\* the detail callback once if its profile is the one selected in the window
\* at that moment, and not at all if it is not.
C26_CallbacksOnExit ==
    [][\A w \in DOMAIN watchers :
          (watchers[w].pc = "watching" /\ watchers'[w].pc = "exited")
            => /\ watchers'[w].refreshed = 1
               /\ watchers'[w].details
                    = IF selected_profile = <<watchers[w].profile_name>> THEN 1 ELSE 0]_vars

\* ------------------------------------------------------------------------
\* C27
\* ------------------------------------------------------------------------

\* C27: whatever the launch threads (registering, removing their entry when
\* they end), kill_process and get_active_processes do in turn, no
\* get_active_processes or kill_process ends with an error and no launch
\* thread fails in its clean-up.
C27_RegistryOperationsComplete ==
    /\ last.op \in {"get_active_processes", "kill_process"} => last.err = ""
    /\ \A t \in DOMAIN threads : threads[t].pc # "failed"

\* ------------------------------------------------------------------------
\* C28
\* ------------------------------------------------------------------------

StampNames == {NameA, NameAUsA}

\* What strikes the load and the save of last_launched: nothing, an OSError
\* of the open() of either, an OSError of the write.
StampFaults == {"none", "load", "save_open", "save_write"}

\* The launcher with the browser of "a" not started, or started, registered
\* and running.
InitStamp ==
    /\ InitManager
    /\ browser_engine = "chromedriver"
    /\ dir_name = <<>>
    /\ dir_result = [err |-> "unset", path |-> PROFILES_DIR]
    /\ \/ processes = <<>> /\ _active_processes = EmptyMap
       \/ /\ processes = <<new_process(profile_dir(NameA).path)>>
          /\ _active_processes = [n \in {NameA} |-> BrowserProcess(NameA, 1, 0)]
    /\ threads = <<>>
    /\ returned = <<>>
    /\ calls = [c \in Callers |-> NotCalling]
    /\ InitServices

NextStamp ==
    \/ \E name \in StampNames :
          CreateProfile(name, "windows", <<>>, <<>>, <<>>, "chromedriver", "none",
                        FirstDraw, FirstDraw)
    \/ Tick
    \/ \E name \in StampNames, fault \in StampFaults :
          LaunchFromProfileManager(name, <<>>, fault)
    \/ \E pid \in 1..Len(processes) : ProcessExits(pid)

SpecStamp == InitStamp /\ [][NextStamp]_vars

\* The step leaves the record of profile_name with last_launched set to the
\* time of the step, and every other record's last_launched as it was.
stamped(profile_name) ==
    /\ metadata_file'.state = "ok"
    /\ DOMAIN metadata_file'.data = DOMAIN metadata_file.data
    /\ metadata_file'.data[profile_name].last_launched = <<clock>>
    /\ \A n \in DOMAIN metadata_file.data \ {profile_name} :
          metadata_file'.data[n].last_launched = metadata_file.data[n].last_launched

CreatedNames == {NameA, NameAUsA}

\* Profiles are created and launched as "a"; they are updated, renamed and
\* duplicated under both names, at different times.
NextCreated ==
    \/ CreateProfile(NameA, "windows", <<>>, <<>>, <<>>, "chromedriver", "none",
                     FirstDraw, FirstDraw)
    \/ Tick
    \/ \E name \in CreatedNames : UpdateProfile(name, <<>>, <<>>, <<<<"n">>>>, <<>>, "none")
    \/ \E old_name \in CreatedNames, new_name \in CreatedNames :
          RenameProfile(old_name, new_name, "none")
    \/ \E source_name \in CreatedNames, new_name \in CreatedNames :
          DuplicateProfile(source_name, new_name, "none", FirstDraw, FirstDraw)
    \/ LaunchFromProfileManager(NameA, <<>>, "none")

SpecCreated == Init /\ [][NextCreated]_vars

\* C29: an update_profile, a launch or a duplicate_profile of a profile (as
\* the source) leaves the 'created' of its record as it was, and a
\* rename_profile that succeeds carries it over to the record under the new
\* name.
C29_CreatedNeverChanges ==
    [][\A n \in DOMAIN metadata_file.data :
          (/\ last'.name = n
           /\ last'.op \in {"update_profile", "rename_profile", "duplicate_profile",
                            "launch_from_profile_manager"})
            => IF last'.op = "rename_profile" /\ last'.err = ""
               THEN /\ last'.new \in DOMAIN metadata_file'.data
                    /\ metadata_file'.data[last'.new].created = metadata_file.data[n].created
               ELSE /\ n \in DOMAIN metadata_file'.data
                    /\ metadata_file'.data[n].created = metadata_file.data[n].created]_vars

\* A profile that was launched has been renamed later than it was created,
\* and its record, under the new name, carries an earlier 'created'.
C29_Witness ==
    /\ last.op = "rename_profile"
    /\ last.err = ""
    /\ metadata_file.state = "ok"
    /\ last.new \in DOMAIN metadata_file.data
    /\ metadata_file.data[last.new].created < clock
    /\ metadata_file.data[last.new].last_launched # <<>>

\* ------------------------------------------------------------------------
\* C30
\* ------------------------------------------------------------------------

\* ChromeDriverEngine.run raises before the browser is there (no
\* undetected-chromedriver, uc.Chrome fails), or the engine is unknown: the
\* except of _run prints, and _run reaches its finally.
RunFails(t) ==
    /\ threads[t].pc = "start"
    /\ Background
    /\ threads' = [threads EXCEPT ![t].pc = "finally"]
    /\ UNCHANGED <<_active_processes, processes>>

\* ChromeDriverEngine.run finds no pid for the browser it started ("Could
\* not determine browser PID") and goes on without register_process.
RunUnregistered(t) ==
    /\ threads[t].pc = "spawned"
    /\ Background
    /\ threads' = [threads EXCEPT ![t].pc = "monitor"]
    /\ UNCHANGED <<_active_processes, processes>>

\* The browser of launch thread t is gone: window_handles and the CDP
\* commands of the monitoring loop fail from now on.
session_ended(t) ==
    /\ threads[t].pc = "monitor"
    /\ ~is_alive(processes, threads[t].pid)

\* Launches and kills of one profile, and the statements of the launch
\* threads between them; browsers start or fail to, are registered or not,
\* and end on their own, by kill_process or by driver.quit().
NextLifecycle ==
    \/ \E name \in RaceNames : Launch(name, <<>>)
    \/ \E name \in RaceNames : KillProcess(name, FALSE)
    \/ \E t \in 1..Len(threads) : RunStart(t, TRUE)
    \/ \E t \in 1..Len(threads) : RunFails(t)
    \/ \E t \in 1..Len(threads) : RunRegister(t)
    \/ \E t \in 1..Len(threads) : RunUnregistered(t)
    \/ \E t \in 1..Len(threads) : RunQuit(t)
    \/ \E t \in 1..Len(threads) : RunFinallyTest(t)
    \/ \E t \in 1..Len(threads) : RunFinallyDelete(t)
    \/ \E pid \in 1..Len(processes) : ProcessExits(pid)

\* What launch thread t does without waiting for anything but the
\* scheduler: the start of the engine, the registration, the iteration of
\* the monitoring loop that finds the session ended, and the finally. A
\* browser that runs may run forever.
ThreadStep(t) ==
    /\ t \in DOMAIN threads
    /\ \/ RunStart(t, TRUE)
       \/ RunFails(t)
       \/ RunRegister(t)
       \/ RunUnregistered(t)
       \/ session_ended(t) /\ RunQuit(t)
       \/ RunFinallyTest(t)
       \/ RunFinallyDelete(t)

SpecLifecycle ==
    /\ Init
    /\ [][NextLifecycle]_vars
    /\ \A t \in 1..MaxThreads : WF_vars(ThreadStep(t))

\* Launch thread t is over, its browser is not running and the registry has
\* no entry for its profile.
idle_again(t) ==
    /\ threads[t].pc \in {"finished", "failed"}
    /\ threads[t].pid # 0 => ~is_alive(processes, threads[t].pid)
    /\ threads[t].profile_name \notin DOMAIN _active_processes

\* C30: a launch thread whose browser is gone (no window, session ended), or
\* whose engine failed to start, leaves the monitoring loop, has the engine
\* quit, and comes to its end with no entry for the profile in the registry.
C30_LaunchReturnsToIdle ==
    \A t \in 1..MaxThreads :
        (t \in DOMAIN threads /\ (session_ended(t) \/ threads[t].pc = "finally"))
           ~> (t \in DOMAIN threads /\ idle_again(t))

\* A launch thread has come to its end after its browser was registered and
\* ended, a second launch of the profile being under way.
C30_Witness ==
    /\ Len(threads) = 2
    /\ idle_again(1)
    /\ threads[1].pid # 0
    /\ threads[2].pc \in {"start", "spawned"}

\* ------------------------------------------------------------------------
\* C31
\* ------------------------------------------------------------------------

\* C31: a rename_profile of a profile that has a record and a directory, and
\* that raises, leaves the directory under the old name where its record
\* points.
C31_FailedRenameRolledBack ==
    [][(/\ last'.op = "rename_profile"
        /\ last'.err # ""
        /\ valid(last'.name)
        /\ has_record(Before, last'.name)
        /\ exists(Before, dir_of(last'.name)))
         => exists(After, dir_of(last'.name))]_vars

\* ------------------------------------------------------------------------
\* C32
\* ------------------------------------------------------------------------

\* The passes of "for _ in range(15)" in watch().
PollTries == 2

\* What a step of a watch thread leaves alone.
WatchFrame ==
    /\ last' = NoOperation
    /\ returned' = <<>>
    /\ UNCHANGED <<metadata_file, dirs, browser_engine, clock, snapshot, dir_name,
                   dir_result, used_fingerprint, calls, processes, threads, profile_tree,
                   cleaner, selected_profile, run_vars>>

\* The end of watch(): the name is discarded and the callbacks are called.
WatchLeaves(w) ==
    /\ _monitored_profiles' = _monitored_profiles \ {watchers[w].profile_name}
    /\ watchers' = [watchers EXCEPT ![w] = watch_exit(@)]

\* One pass of the first loop of watch(): get_active_processes (which prunes
\* the registry) is asked for the profile; a pid ends the loop, and so does
\* the last pass.
WatchPoll(w) ==
    LET active == get_active_processes(_active_processes, processes)
        profile_name == watchers[w].profile_name
    IN  /\ watchers[w].pc = "watching"
        /\ WatchFrame
        /\ _active_processes' = active
        /\ UNCHANGED _monitored_profiles
        /\ watchers' = [watchers EXCEPT ![w] =
              IF profile_name \in DOMAIN active
              THEN [@ EXCEPT !.pc = "pid", !.pid = active[profile_name].pid]
              ELSE IF @.tries + 1 = PollTries
              THEN [@ EXCEPT !.pc = "fallback", !.tries = PollTries]
              ELSE [@ EXCEPT !.tries = @ + 1]]

\* "while psutil.pid_exists(pid)" finds the process gone.
WatchPid(w) ==
    /\ watchers[w].pc = "pid"
    /\ processes[watchers[w].pid].main # "running"
    /\ WatchFrame
    /\ UNCHANGED _active_processes
    /\ WatchLeaves(w)

\* "while BrowserLauncher.is_running(profile_name)" finds the profile not
\* running.
WatchFallback(w) ==
    /\ watchers[w].pc = "fallback"
    /\ ~is_running(FileSystem(dirs, metadata_file), _active_processes, processes,
                   watchers[w].profile_name)
    /\ WatchFrame
    /\ UNCHANGED _active_processes
    /\ WatchLeaves(w)

\* Nothing is running, or the browser of "a_a" is, started before the
\* window was opened.
InitWatch ==
    /\ InitManager
    /\ browser_engine = "chromedriver"
    /\ dir_name = <<>>
    /\ dir_result = [err |-> "unset", path |-> PROFILES_DIR]
    /\ processes \in {<<>>, <<new_process(profile_dir(NameAUsA).path)>>}
    /\ _active_processes = EmptyMap
    /\ threads = <<>>
    /\ returned = <<>>
    /\ calls = [c \in Callers |-> NotCalling]
    /\ InitServices

\* "a" is launched and watched; its browser starts or not, is registered or
\* not, and ends; browsers end on their own.
NextWatch ==
    \/ Launch(NameA, <<>>)
    \/ StartMonitor(NameA)
    \/ \E t \in 1..Len(threads), started \in BOOLEAN : RunStart(t, started)
    \/ \E t \in 1..Len(threads) : RunRegister(t)
    \/ \E t \in 1..Len(threads) : RunUnregistered(t)
    \/ \E t \in 1..Len(threads) : RunFinish(t)
    \/ \E pid \in 1..Len(processes) : ProcessExits(pid)
    \/ \E w \in 1..Len(watchers) : WatchPoll(w)
    \/ \E w \in 1..Len(watchers) : WatchPid(w)
    \/ \E w \in 1..Len(watchers) : WatchFallback(w)

\* A watch thread that can take a step takes it.
WatchStep(w) ==
    /\ w \in DOMAIN watchers
    /\ (WatchPoll(w) \/ WatchPid(w) \/ WatchFallback(w))

SpecWatch ==
    /\ InitWatch
    /\ [][NextWatch]_vars
    /\ \A w \in 1..MaxWatchers : WF_vars(WatchStep(w))

\* A browser launched for the profile is running.
browser_alive(profile_name) ==
    \E t \in DOMAIN threads :
        /\ threads[t].profile_name = profile_name
        /\ threads[t].pid # 0
        /\ is_alive(processes, threads[t].pid)

\* C32: a watch thread whose profile has, from some moment on, no browser
\* running comes to its end, and the step that ends it leaves the profile
\* out of what is_monitoring reports.
C32_WatcherTerminates ==
    /\ \A w \in 1..MaxWatchers :
          <>[](w \in DOMAIN watchers /\ ~browser_alive(NameA))
             => <>(w \in DOMAIN watchers /\ watchers[w].pc = "exited")
    /\ [][\A w \in DOMAIN watchers :
             (watchers[w].pc # "exited" /\ watchers'[w].pc = "exited")
               => watchers[w].profile_name \notin _monitored_profiles']_vars


\* ------------------------------------------------------------------------
\* The session loop of ChromeDriverEngine.run.

MaxTabs == 2

\* What the first tab of a browser can show, and the pages the user opens.
TabUrls == {"about:blank", "chrome://newtab/", "https://a/", "https://b/"}
PageUrls == {"https://a/", "https://b/"}

SessionFaults == {"none", "targets", "ended", "save_open", "save_write"}

\* The pages whose URL the loop collects: not empty, not about:blank, not
\* starting with chrome://.
open_urls_of(tabs) ==
    SelectSeq(tabs, LAMBDA url : url # "" /\ url # "about:blank" /\ url # "chrome://newtab/")

\* BrowserLauncher._save_session: open(session_file, 'w') and json.dump; the
\* open can fail, and so can the write after the file was emptied.
_save_session(session_file, urls, fault) ==
    IF fault = "save_open" THEN [file |-> session_file, err |-> "OSError"]
    ELSE IF fault = "save_write"
    THEN [file |-> <<[urls |-> urls, torn |-> TRUE]>>, err |-> "OSError"]
    ELSE [file |-> <<[urls |-> urls, torn |-> FALSE]>>, err |-> ""]

\* BrowserLauncher._load_session: [] when the file is absent or unreadable.
_load_session(session_file) ==
    IF session_file = <<>> \/ session_file[1].torn THEN <<>> ELSE session_file[1].urls

\* The loop is over: driver.quit().
session_quit(s) ==
    [s EXCEPT !.pc = "quit", !.tabs = <<>>, !.wrote = "no", !.seen = <<>>]

\* One pass that writes the file whatever last_saved is.
session_poll_always(s, fault) ==
    LET open_urls == open_urls_of(s.tabs)
        out == _save_session(s.session_file, open_urls, fault)
    IN  IF s.tabs = <<>> \/ fault = "ended" THEN session_quit(s)
        ELSE IF fault = "targets" THEN [s EXCEPT !.wrote = "no", !.seen = <<>>]
        ELSE [s EXCEPT !.session_file = out.file,
                       !.last_saved = IF out.err = "" THEN <<open_urls>> ELSE @,
                       !.wrote = IF fault = "save_open" THEN "no"
                                 ELSE IF out.err = "" THEN "full" ELSE "torn",
                       !.written = IF fault = "save_open" THEN @ ELSE out.file,
                       !.seen = <<open_urls>>]

\* One pass of "while True": no window, or a session that ended, leaves the
\* loop; a failure of Target.getTargets or of save_session is logged; the file
\* is written when open_urls != last_saved, and last_saved is set after the
\* write.
session_poll(s, fault) ==
    LET open_urls == open_urls_of(s.tabs)
        out == _save_session(s.session_file, open_urls, fault)
    IN  IF s.tabs = <<>> \/ fault = "ended" THEN session_quit(s)
        ELSE IF fault = "targets" THEN [s EXCEPT !.wrote = "no", !.seen = <<>>]
        ELSE IF <<open_urls>> # s.last_saved
        THEN [s EXCEPT !.session_file = out.file,
                       !.last_saved = IF out.err = "" THEN <<open_urls>> ELSE @,
                       !.wrote = IF fault = "save_open" THEN "no"
                                 ELSE IF out.err = "" THEN "full" ELSE "torn",
                       !.written = IF fault = "save_open" THEN @ ELSE out.file,
                       !.seen = <<open_urls>>]
        ELSE [s EXCEPT !.wrote = "no", !.seen = <<open_urls>>]

\* What the steps of a run leave alone.
SessionFrame ==
    UNCHANGED <<pm_vars, dir_name, dir_result, used_fingerprint, launcher_vars, profile_tree,
                cleaner, monitor_vars, uptime>>

\* ChromeDriverEngine.run up to the loop: the browser opens on its first
\* page, or on the saved pages when restore_session finds some; last_saved
\* is None.
SessionStart(restore_session, first) ==
    LET saved_urls == IF restore_session THEN _load_session(session.session_file) ELSE <<>>
    IN  /\ session.pc = "idle"
        /\ session' = [session EXCEPT !.pc = "loop",
                          !.tabs = IF saved_urls # <<>> THEN saved_urls ELSE <<first>>,
                          !.last_saved = <<>>, !.wrote = "no", !.seen = <<>>,
                          !.written = <<>>]
        /\ SessionFrame

\* The user opens a page.
OpenTab(url) ==
    /\ session.pc = "loop"
    /\ Len(session.tabs) < MaxTabs
    /\ session' = [session EXCEPT !.tabs = Append(@, url)]
    /\ SessionFrame

\* The user closes a page.
CloseTab(i) ==
    /\ session.pc = "loop"
    /\ i \in DOMAIN session.tabs
    /\ session' = [session EXCEPT
          !.tabs = SubSeq(@, 1, i - 1) \o SubSeq(@, i + 1, Len(@))]
    /\ SessionFrame

SessionPoll(fault) ==
    /\ session.pc = "loop"
    /\ session' = session_poll(session, fault)
    /\ SessionFrame

NextSession ==
    \/ \E restore_session \in BOOLEAN, first \in TabUrls : SessionStart(restore_session, first)
    \/ \E url \in PageUrls : OpenTab(url)
    \/ \E i \in 1..MaxTabs : CloseTab(i)
    \/ \E fault \in SessionFaults : SessionPoll(fault)

\* last_session.json as earlier runs can have left it.
SessionFiles ==
    {<<>>, <<[urls |-> <<"https://a/", "https://b/">>, torn |-> FALSE]>>,
     <<[urls |-> <<"https://a/">>, torn |-> TRUE]>>}

\* No engine runs yet.
InitSession ==
    /\ InitManager
    /\ InitLauncher
    /\ browser_engine = "chromedriver"
    /\ dir_name = <<>>
    /\ dir_result = [err |-> "unset", path |-> PROFILES_DIR]
    /\ profile_tree = <<>>
    /\ cleaner = NoCleaning
    /\ InitMonitor
    /\ uptime = NoUptime
    /\ session \in {[NoSession EXCEPT !.session_file = file] : file \in SessionFiles}

SpecSession == InitSession /\ [][NextSession]_vars

\* The members of a list.
url_set(urls) == {urls[i] : i \in DOMAIN urls}

\* The pass wrote into the file.
poll_wrote(fault) == SessionPoll(fault) /\ session'.wrote # "no"

\* C33 as stated: a pass writes only when the set of URLs it sees differs from
\* the set the loop last wrote, and of two passes in a row that see the same
\* URLs at most one writes.
C33_WritesOnlyWhenSetChanged ==
    [][\A fault \in SessionFaults :
          /\ (poll_wrote(fault) /\ session.written # <<>>)
                => url_set(session.written[1].urls) # url_set(open_urls_of(session.tabs))
          /\ (poll_wrote(fault) /\ session.seen = <<open_urls_of(session.tabs)>>)
                => session.wrote = "no"]_vars

\* C33: a pass writes only when the list of URLs it sees, in the order of the
\* tabs, differs from the list this run last wrote in full, and of two passes
\* in a row that see the same list at most one writes the file in full.
C33_WritesOnlyWhenListChanged ==
    [][\A fault \in SessionFaults :
          /\ (poll_wrote(fault) /\ session.written # <<>>)
                => \/ session.written[1].torn
                   \/ session.written[1].urls # open_urls_of(session.tabs)
          /\ (poll_wrote(fault) /\ session.seen = <<open_urls_of(session.tabs)>>)
                => session.wrote # "full"]_vars

\* The run wrote a list of pages in full, and its last pass, which saw the
\* same list, did not write.
C33_Witness ==
    /\ session.pc = "loop"
    /\ session.wrote = "no"
    /\ session.written # <<>>
    /\ ~session.written[1].torn
    /\ session.written[1].urls = open_urls_of(session.tabs)
    /\ session.seen = <<session.written[1].urls>>
    /\ Len(session.written[1].urls) = MaxTabs


\* ------------------------------------------------------------------------
\* The engine a launch through the profile manager uses.

\* Profiles are created and updated with every engine, under every
\* "browser_engine" setting, and launched without an engine argument.
NextBackend ==
    \/ \E name \in DataNames, engine \in Engines :
          CreateProfile(name, "windows", <<>>, <<>>, <<>>, engine, "none",
                        FirstDraw, FirstDraw)
    \/ \E name \in DataNames, engine \in {<<>>} \cup {<<e>> : e \in Engines} :
          UpdateProfile(name, <<>>, <<>>, <<>>, engine, "none")
    \/ \E name \in DataNames : LaunchFromProfileManager(name, <<>>, "none")

SpecBackend == InitEngine /\ [][NextBackend]_vars

\* C34: a launch through the profile manager without an engine argument
\* starts its thread with the engine the profile's record names, the value
\* get_profile returns for it.
C34_LaunchUsesRecordedEngine ==
    [][\A name \in DataNames :
          (/\ LaunchFromProfileManager(name, <<>>, "none")
           /\ Len(threads') = Len(threads) + 1)
            => /\ get_profile(Before, name).value # <<>>
               /\ threads'[Len(threads')].engine = <<get_profile(Before, name).value[1].engine>>
               /\ threads'[Len(threads')].engine = <<Before.meta.data[name].engine>>]_vars


\* ------------------------------------------------------------------------
\* BrowserProcess.get_uptime.

MaxDays == 2

\* datetime.now() - started_at: a timedelta keeps whole days in .days and
\* the rest, below one day, in .seconds.
timedelta(elapsed) == [days |-> elapsed \div 86400, seconds |-> elapsed % 86400]

\* f"{hours}h {minutes}m" of delta.seconds // 3600 and
\* (delta.seconds % 3600) // 60.
get_uptime(delta) == <<delta.seconds \div 3600, (delta.seconds % 3600) \div 60>>

\* The ages a process is asked at: around the full minutes, hours and days.
Elapsed ==
    {d * 86400 + h * 3600 + m * 60 + sec :
        d \in 0..MaxDays, h \in {0, 1, 23}, m \in {0, 1, 59}, sec \in {0, 59}}

InitUptime ==
    /\ InitManager
    /\ InitLauncher
    /\ browser_engine = "chromedriver"
    /\ dir_name = <<>>
    /\ dir_result = [err |-> "unset", path |-> PROFILES_DIR]
    /\ profile_tree = <<>>
    /\ cleaner = NoCleaning
    /\ InitMonitor
    /\ session = NoSession
    /\ uptime \in {[elapsed |-> elapsed, text |-> <<>>] : elapsed \in Elapsed}

\* BrowserProcess.get_uptime()
GetUptime ==
    /\ uptime' = [uptime EXCEPT !.text = <<get_uptime(timedelta(uptime.elapsed))>>]
    /\ UNCHANGED <<pm_vars, dir_name, dir_result, used_fingerprint, launcher_vars, profile_tree,
                   cleaner, monitor_vars, session>>

SpecUptime == InitUptime /\ [][GetUptime]_vars

\* C35: the uptime returned is the whole age of the process: its hours are
\* the seconds elapsed divided by 3600, rounded down, and its minutes those
\* of the rest.
C35_UptimeIsWholeElapsedTime ==
    uptime.text # <<>>
        => uptime.text[1] = <<uptime.elapsed \div 3600, (uptime.elapsed % 3600) \div 60>>


\* ------------------------------------------------------------------------
\* C36: the del of a launch thread's finally removes no entry of a process
\* that another launch registered and that is still alive.
C36_ThreadRemovesOwnEntryOnly ==
    [][\A t \in DOMAIN threads : \A name \in DOMAIN _active_processes :
          (/\ RunFinallyDelete(t)
           /\ _active_processes[name].pid # threads[t].pid
           /\ is_alive(processes, _active_processes[name].pid))
            => name \in DOMAIN _active_processes']_vars


\* ------------------------------------------------------------------------
\* No process, browser or helper, runs on the directory of the profile, and
\* none is registered for it.
no_process_of(profile_name) ==
    /\ ~registered_alive(profile_name)
    /\ ~\E proc \in process_iter(processes) :
          references(cmdline(proc.cmdline), str_path(profile_dir(profile_name).path))

\* C37: a profile with no process of its own is not reported running and
\* its launch is not rejected, whatever other profiles run.
C37_OtherProfileDoesNotCount ==
    [][\A name \in LaunchNames :
          no_process_of(name)
            => /\ IsRunning(name) => returned' = <<FALSE>>
               /\ Launch(name, <<>>) => last'.err = ""]_vars


\* ------------------------------------------------------------------------
\* C38: kill_process of a profile that is_running reports returns True, and
\* the profile is not running afterwards.
C38_RunningCanBeKilled ==
    [][\A name \in LaunchNames :
          (/\ KillProcess(name, FALSE)
           /\ is_running(Before, _active_processes, processes, name))
            => /\ returned' = <<TRUE>>
               /\ ~is_running(After, _active_processes', processes', name)]_vars


\* ------------------------------------------------------------------------
\* C39: a delete, rename or duplicate called with a name that has no record
\* leaves the directories as they are when a record stored under another
\* name owns the directory the name sanitizes to.
C39_UnrecordedNameLeavesDirectories ==
    [][\A m \in Names :
          (/\ OperationStep
           /\ last'.op \in {"delete_profile", "rename_profile", "duplicate_profile"}
           /\ ~has_record(Before, last'.name)
           /\ m # last'.name
           /\ has_record(Before, m)
           /\ dir_of(m) = dir_of(last'.name)
           /\ exists(Before, dir_of(m)))
            => /\ exists(After, dir_of(m))
               /\ dirs' = dirs]_vars

====
